---- MODULE Spec2Model ----
(***************************************************************************)
(* The OptoGrid clients as state machines: the command dispatcher, the    *)
(* session logger and the device-connection events of                     *)
(*   - HeadlessOptoGridClient  (src/headless_optogrid_backend.py),        *)
(*   - the Qt client           (src/pyqt_optogrid_python_client.py),      *)
(*   - OptoGridClient          (src/optogrid_client.py).                  *)
(* One behaviour runs one backend, chosen in Init.  The fields of the     *)
(* client object are the variables; the operators below take the object   *)
(* as a record s ("self") and return the object after the call.           *)
(*                                                                         *)
(* Environment: the BLE device (an awaited GATT operation ends ok or with  *)
(* an exception, the link may drop at any await point, notifications       *)
(* arrive while connected), the REQ peers (any message text) and the file  *)
(* system at session creation.  Writes to an open session file succeed.    *)
(***************************************************************************)
EXTENDS Integers, Sequences, FiniteSets, TLC

VARIABLES
    backend,                  \* which client runs: "headless", "qt", "og"
                              \* (OptoGridClient, headless mode of new_main) or
                              \* "og_gui" (OptoGridClient, GUI mode of new_main)
    connected,                \* self.client and self.client.is_connected
    imu_enable_state,         \* self.imu_enable_state
    imu_logging_active,       \* self.imu_logging_active (headless)
    writer,                   \* self.parquet_writer / self.imu_csv_writer is set
    imu_data_buffer,          \* self.imu_data_buffer, a list of rows
    files,                    \* the session files, oldest first; a file is the
                              \* list of chunks written to it, a chunk a list of rows
    imu_counter,              \* self.imu_counter
    dev_sample,               \* the device's sample counter (environment)
    current_battery_voltage,  \* self.current_battery_voltage
    zpc,                      \* position of the dispatch coroutine / listener
    zarg,                     \* its local: writes left (program), path (connect)
    zmq_state,                \* REP socket: "recv" (may receive) or "send" (owes a reply)
    efsm,                     \* a socket call was made in the wrong REP state
    last_reply,               \* the reply the REQ peer holds: the last one sent,
                              \* "" once the peer's next message has been received
    gpio_tasks,               \* do_send_trigger coroutines scheduled by the GPIO callback
    qpc,                      \* Qt: ZMQListener.run is in recv_string ("recv"), in
                              \* reply_queue.get ("get") or has left its loop ("dead")
    expecting_program_data,   \* Qt: ZMQListener.expecting_program_data
    reply_queue,              \* Qt: ZMQListener.reply_queue
    slot,                     \* Qt: the request signal emitted and not yet handled
    zreq,                     \* Qt: the request the listener last received
    bat_handler,              \* Qt: a battery_read_handler is connected to battery_voltage_read
    bat_bar,                  \* Qt: update_battery_voltage_bar is connected to it
    gui_bat,                  \* Qt: battery reads started by the GUI and not yet ended
    win_open,                 \* history: the REQ peer was told 'IMU enabled, and logging
                              \* started' and has not sent a disable request since
    win,                      \* history: the samples received while win_open, in order
    win_cut,                  \* history: the connection ended while win_open
    edge_recent,              \* the rising edge the trigger Button took less than 200 ms
                              \* ago: "none", or whether its callback submitted a
                              \* trigger action ("submitted") or not ("taken")
    mag_calibration,          \* self.mag_offset, self.mag_scale: "identity" (0, 1) or "loaded"
    last_mag,                 \* self.last_mag, in magnetometer counts (100 / 65536 gauss), one axis
    mag_fusion,               \* the last fusion_filter.update call: "9dof" (with mag) or "6dof"
    accepted_mag,             \* history: the last sample that was fused with the magnetometer
    rejected_run,             \* history: updates since then, counted to 2
    codec_call,               \* a call of a function on its own: [fn, type_str, arg]
    codec_ret,                \* what that call returned or raised
    gpio_writes,              \* write_gatt_char calls of GPIO trigger tasks that are awaited
    op_wait,                  \* the awaited device operation: "none" wrong with it, "hung" for ever, "expired" (the worker gave up)
    filter_frequency,         \* frequency the orientation filter (EKF) was built with, Hz
    device_rate,              \* IMU sample-rate characteristic of the device last connected to (0: none yet)
    write_failed,             \* history: a device write of the request being served failed
    req_client                \* the library object OptoGrid of a REQ peer: its connect() call and its socket

vars == << backend, connected, imu_enable_state, imu_logging_active, writer,
           imu_data_buffer, files, imu_counter, dev_sample,
           current_battery_voltage, zpc, zarg, zmq_state, efsm, last_reply,
           gpio_tasks, qpc, expecting_program_data, reply_queue, slot, zreq,
           bat_handler, bat_bar, gui_bat, win_open, win, win_cut,
           edge_recent,
           mag_calibration,
           last_mag,
           mag_fusion,
           accepted_mag,
           rejected_run,
           codec_call,
           codec_ret,
           gpio_writes,
           op_wait,
           filter_frequency,
           device_rate,
           write_failed,
           req_client >>

-----------------------------------------------------------------------------
(* Bounds of the model *)
MaxRecords == 2            \* records the device sends, logger specifications
MaxDispatchRecords == 1    \* records the device sends, dispatcher specifications
MaxSessions == 2           \* session files that can be created
MaxDispatchSessions == 1   \* session files that can be created, dispatcher specification
MaxSettings == 1           \* mapped settings in a program payload
MaxGpioTasks == 1          \* scheduled GPIO triggers not yet run
MaxQueue == 1              \* replies left in reply_queue when a request is received
MaxFlushRecords == 250     \* records streamed in the flush-threshold specification
MaxGuiReads == 1           \* battery reads started by the GUI and not yet ended
MaxGauss == 4              \* strongest field the magnetometer measures, in MagUnit
MaxMagRecords == 3         \* records the device sends, magnetometer specification
MaxImuLen == 23            \* longest IMU payload the device sends
MaxBytes == 3              \* longest value of a characteristic that is read
MaxText == 3               \* longest text of digits, signs and blanks to encode
AlphaDen == 4              \* the smoothing coefficients are 0, 1/AlphaDen, ..., 1
MaxSamples == 5            \* longest sample column given to the continuity check

(* Program constants *)
FlushThreshold == 100
TriggerSync == 65536
BatteryMv == 3700
SyncValue == 7
None == -1
DefaultRate == 100          \* EKF(frequency=100) of setup_imu_processing

\* OptoGrid after start(): no call made, the REQ socket may send, nothing sent
OptoGridIdle ==
    [pc |-> "idle", attempt |-> 0, req |-> "ready", wire |-> "none",
     sent |-> 0, raised |-> 0, timeouts |-> 0, got |-> FALSE, ret |-> FALSE, calls |-> 0]
DeviceName == "OptoGrid 1"                  \* the device's name
SessionFile == "data/OptoGrid 1_session.csv" \* a session file of OptoGridClient

(* Replies that carry a name or a number *)
\* f"{device_name} Connected"
ConnectedReply == DeviceName \o " Connected"
\* f"{device_name} Battery Voltage = {voltage} mV"
BatteryReply == DeviceName \o " Battery Voltage = " \o ToString(BatteryMv) \o " mV"
\* f"Connected to {matching_device.name}"
OgConnectedReply == "Connected to " \o DeviceName
\* f"IMU enabled: {filename}"
OgEnabledReply == "IMU enabled: " \o SessionFile
\* f"Sync {sync_value} written"
OgSyncReply == "Sync " \o ToString(SyncValue) \o " written"
\* f"{voltage} mV"
OgBatteryReply == ToString(BatteryMv) \o " mV"

-----------------------------------------------------------------------------
(* The client object as a record, and its assignment to the variables. *)
St ==
    [ backend |-> backend, connected |-> connected,
      imu_enable_state |-> imu_enable_state,
      imu_logging_active |-> imu_logging_active, writer |-> writer,
      imu_data_buffer |-> imu_data_buffer, files |-> files,
      imu_counter |-> imu_counter, dev_sample |-> dev_sample,
      current_battery_voltage |-> current_battery_voltage,
      zpc |-> zpc, zarg |-> zarg, zmq_state |-> zmq_state, efsm |-> efsm,
      last_reply |-> last_reply, gpio_tasks |-> gpio_tasks,
      qpc |-> qpc, expecting_program_data |-> expecting_program_data,
      reply_queue |-> reply_queue, slot |-> slot, zreq |-> zreq,
      bat_handler |-> bat_handler, bat_bar |-> bat_bar, gui_bat |-> gui_bat,
      win_open |-> win_open, win |-> win, win_cut |-> win_cut,
      edge_recent |-> edge_recent,
      mag_calibration |-> mag_calibration,
      last_mag |-> last_mag,
      mag_fusion |-> mag_fusion,
      accepted_mag |-> accepted_mag,
      rejected_run |-> rejected_run,
      codec_call |-> codec_call,
      codec_ret |-> codec_ret,
      gpio_writes |-> gpio_writes,
      op_wait |-> op_wait,
      filter_frequency |-> filter_frequency,
      device_rate |-> device_rate,
      write_failed |-> write_failed,
      req_client |-> req_client ]

Set(r) ==
    LET n == r IN
    /\ backend' = n.backend
    /\ connected' = n.connected
    /\ imu_enable_state' = n.imu_enable_state
    /\ imu_logging_active' = n.imu_logging_active
    /\ writer' = n.writer
    /\ imu_data_buffer' = n.imu_data_buffer
    /\ files' = n.files
    /\ imu_counter' = n.imu_counter
    /\ dev_sample' = n.dev_sample
    /\ current_battery_voltage' = n.current_battery_voltage
    /\ zpc' = n.zpc
    /\ zarg' = n.zarg
    /\ zmq_state' = n.zmq_state
    /\ efsm' = n.efsm
    /\ last_reply' = n.last_reply
    /\ gpio_tasks' = n.gpio_tasks
    /\ qpc' = n.qpc
    /\ expecting_program_data' = n.expecting_program_data
    /\ reply_queue' = n.reply_queue
    /\ slot' = n.slot
    /\ zreq' = n.zreq
    /\ bat_handler' = n.bat_handler
    /\ bat_bar' = n.bat_bar
    /\ gui_bat' = n.gui_bat
    /\ win_open' = n.win_open
    /\ win' = n.win
    /\ win_cut' = n.win_cut
    /\ edge_recent' = n.edge_recent
    /\ mag_calibration' = n.mag_calibration
    /\ last_mag' = n.last_mag
    /\ mag_fusion' = n.mag_fusion
    /\ accepted_mag' = n.accepted_mag
    /\ rejected_run' = n.rejected_run
    /\ codec_call' = n.codec_call
    /\ codec_ret' = n.codec_ret
    /\ gpio_writes' = n.gpio_writes
    /\ op_wait' = n.op_wait
    /\ filter_frequency' = n.filter_frequency
    /\ device_rate' = n.device_rate
    /\ write_failed' = n.write_failed
    /\ req_client' = n.req_client

-----------------------------------------------------------------------------
(* Rows and files *)

\* A telemetry row: of its 16 columns the model keeps sample (index 0),
\* sync (index 10) and bat_v (index 15, also index -1).
Row(sample, bat) == [sample |-> sample, sync |-> 0, bat_v |-> bat]

\* row[idx] = v on a 16-column row
RowSetItem(row, idx, v) ==
    IF idx = 0 THEN [row EXCEPT !.sample = v]
    ELSE IF idx = 10 THEN [row EXCEPT !.sync = v]
    ELSE IF idx = 15 \/ idx = -1 THEN [row EXCEPT !.bat_v = v]
    ELSE row

\* buffer[-1][idx] = v
SetLast(buf, idx, v) == [buf EXCEPT ![Len(buf)] = RowSetItem(buf[Len(buf)], idx, v)]

RECURSIVE Flatten(_)
Flatten(chunks) ==
    IF chunks = << >> THEN << >> ELSE Head(chunks) \o Flatten(Tail(chunks))

\* the writer appends one chunk (a table, a writerows call) to the open file
WriteChunk(fs, rows) == [fs EXCEPT ![Len(fs)] = Append(fs[Len(fs)], rows)]

-----------------------------------------------------------------------------
(* decode_value and encode_value.  Bytes are sequences of 0..255; a text is  *)
(* the sequence of its character codes (ASCII).  A returned str is a record  *)
(* [kind, val]: kind "int" for str(n), val its decimal text; a number that   *)
(* may pass 2^31 is kept as its base-256 digits, lowest first and none for  *)
(* 0; kind "csv" for the IMU record's "n, v1, ..., v9",                      *)
(* val these numbers; kind "str" / "hex" with the characters or the bytes;   *)
(* "True" / "False"; and the '<decode error>' sentinel.  No uuid of          *)
(* uuid_to_type maps to "float"; that branch is left out.                    *)

Min(a, b) == IF a < b THEN a ELSE b

\* data[lo:hi] of Python, lo and hi counted from 0
Slice(data, lo, hi) ==
    LET top == Min(hi, Len(data))
    IN  IF top <= lo THEN << >> ELSE [k \in 1..(top - lo) |-> data[lo + k]]

\* int.from_bytes(data, byteorder='little'); 0 for no bytes
RECURSIVE from_bytes(_)
from_bytes(data) ==
    IF data = << >> THEN 0 ELSE Head(data) + 256 * from_bytes(Tail(data))

\* struct.unpack('<h', b)[0] of two bytes
unpack_h(b) == IF from_bytes(b) >= 32768 THEN from_bytes(b) - 65536 ELSE from_bytes(b)

RECURSIVE rstrip(_, _)
rstrip(t, c) ==
    IF t # << >> /\ t[Len(t)] = c THEN rstrip(SubSeq(t, 1, Len(t) - 1), c) ELSE t

\* the decoder accepts the one-byte characters; a byte of 128 or more that
\* no lead byte announces is rejected
IsUtf8(data) == \A i \in 1..Len(data) : data[i] < 128

DecodeError == [kind |-> "<decode error>", val |-> << >>]

Front(t) == SubSeq(t, 1, Len(t) - 1)

\* the quotient (one digit per digit of ds) and the remainder of
\* (r * 256 ^ Len(ds) + ds) by 10
RECURSIVE Quot10(_, _)
Quot10(ds, r) ==
    IF ds = << >> THEN << >>
    ELSE Append(Quot10(Front(ds), (r * 256 + ds[Len(ds)]) % 10),
                (r * 256 + ds[Len(ds)]) \div 10)

RECURSIVE Rem10(_, _)
Rem10(ds, r) ==
    IF ds = << >> THEN r ELSE Rem10(Front(ds), (r * 256 + ds[Len(ds)]) % 10)

RECURSIVE DecimalDigits(_)
DecimalDigits(ds) ==
    IF ds = << >> THEN << >>
    ELSE Append(DecimalDigits(rstrip(Quot10(ds, 0), 0)), 48 + Rem10(ds, 0))

\* str(n) of the number with the base-256 digits ds
Decimal(ds) == IF ds = << >> THEN << 48 >> ELSE DecimalDigits(ds)

\* str(int.from_bytes(bytes, byteorder='little'))
IntText(bytes) == [kind |-> "int", val |-> Decimal(rstrip(bytes, 0))]

Known == {"string", "uint8", "uint16", "uint32", "uint64", "bool", "uint32+int16[9]"}

ImuType == "uint32+int16[9]"

decode_value(type_str, data) ==
    IF type_str = "string"
    THEN IF IsUtf8(data) THEN [kind |-> "str", val |-> rstrip(data, 0)] ELSE DecodeError
    ELSE IF type_str = "uint8"
    THEN IF data = << >> THEN DecodeError ELSE IntText(<< data[1] >>)
    ELSE IF type_str = "uint16" THEN IntText(Slice(data, 0, 2))
    ELSE IF type_str = "uint32" THEN IntText(Slice(data, 0, 4))
    ELSE IF type_str = "uint64" THEN IntText(Slice(data, 0, 8))
    ELSE IF type_str = "bool"
    THEN IF data = << >> THEN DecodeError
         ELSE [kind |-> IF data[1] = 1 THEN "True" ELSE "False", val |-> << >>]
    ELSE IF type_str = ImuType
    THEN IF \E i \in 0..8 : Len(Slice(data, 4 + 2 * i, 6 + 2 * i)) # 2
         THEN DecodeError
         ELSE [kind |-> "csv",
               val |-> << from_bytes(Slice(data, 0, 4)) >> \o
                       [i \in 1..9 |-> unpack_h(Slice(data, 2 + 2 * i, 4 + 2 * i))]]
    ELSE [kind |-> "hex", val |-> data]

\* [int(x.strip()) for x in imu_values_str.split(",")]: the numbers of the
\* IMU record's text; int() raises on the sentinel
IntList(str) == IF str.kind = "csv" THEN str.val ELSE << >>

IntListRaises(str) == str.kind # "csv"

IsDigit(c) == c \in 48..57

IsSpace(c) == c \in {32, 9, 10, 13}

RECURSIVE strip(_)
strip(t) ==
    IF t # << >> /\ IsSpace(Head(t)) THEN strip(Tail(t))
    ELSE IF t # << >> /\ IsSpace(t[Len(t)]) THEN strip(SubSeq(t, 1, Len(t) - 1))
    ELSE t

\* ds * m + c on base-256 digits
RECURSIVE MulAdd(_, _, _)
MulAdd(ds, m, c) ==
    IF ds = << >>
    THEN IF c = 0 THEN << >> ELSE << c % 256 >> \o MulAdd(<< >>, m, c \div 256)
    ELSE << (Head(ds) * m + c) % 256 >> \o MulAdd(Tail(ds), m, (Head(ds) * m + c) \div 256)

\* the number a text of decimal digits writes, as base-256 digits
RECURSIVE DigitsValue(_)
DigitsValue(t) ==
    IF t = << >> THEN << >> ELSE MulAdd(DigitsValue(Front(t)), 10, t[Len(t)] - 48)

\* int(value_str): blanks around, one sign, then digits
IntBody(t) == IF strip(t) # << >> /\ Head(strip(t)) \in {43, 45} THEN Tail(strip(t)) ELSE strip(t)

IntParses(t) == IntBody(t) # << >> /\ \A i \in 1..Len(IntBody(t)) : IsDigit(IntBody(t)[i])

\* the magnitude of int(t), and whether int(t) < 0
IntOf(t) == DigitsValue(IntBody(t))

IsNegative(t) == Head(strip(t)) = 45 /\ IntOf(t) # << >>

lower(t) == [i \in 1..Len(t) |-> IF t[i] \in 65..90 THEN t[i] + 32 ELSE t[i]]

\* struct.pack of an unsigned little-endian integer of width bytes
RECURSIVE pack(_, _)
pack(n, width) ==
    IF width = 0 THEN << >> ELSE << n % 256 >> \o pack(n \div 256, width - 1)

\* 0 <= int(t) < 256 ^ width, what struct.pack requires
Fits(t, width) == ~IsNegative(t) /\ Len(IntOf(t)) <= width

\* struct.pack of the number with the base-256 digits ds
pack_digits(ds, width) == [i \in 1..width |-> IF i <= Len(ds) THEN ds[i] ELSE 0]

Width(type_str) ==
    IF type_str = "uint8" THEN 1 ELSE IF type_str = "uint16" THEN 2
    ELSE IF type_str = "uint32" THEN 4 ELSE 8

IsHexDigit(c) == IsDigit(c) \/ c \in 97..102 \/ c \in 65..70

HexVal(c) == IF IsDigit(c) THEN c - 48 ELSE IF c >= 97 THEN c - 87 ELSE c - 55

NoBlanks(t) == SelectSeq(t, LAMBDA c : c # 32)

\* the words encode_value packs as 1: 'true', '1', 'yes'
TrueWords == { << 116, 114, 117, 101 >>, << 49 >>, << 121, 101, 115 >> }

Returned(bytes) == [raised |-> FALSE, kind |-> "bytes", val |-> bytes, of |-> ""]

\* ValueError("Failed to encode value '{value_str}' as {type_str}: {e}")
ValueError(value_str, type_str) ==
    [raised |-> TRUE, kind |-> "ValueError", val |-> value_str, of |-> type_str]

NoCall == [fn |-> "none", type_str |-> "", arg |-> << >>]

NoRet == [raised |-> FALSE, kind |-> "none", val |-> << >>, of |-> ""]

encode_value(type_str, value_str) ==
    IF type_str = "string" THEN Returned(value_str)
    ELSE IF type_str \in {"uint8", "uint16", "uint32", "uint64"}
    THEN IF IntParses(value_str) /\ Fits(value_str, Width(type_str))
         THEN Returned(pack_digits(IntOf(value_str), Width(type_str)))
         ELSE ValueError(value_str, type_str)
    ELSE IF type_str = "bool"
    THEN Returned(<< IF lower(value_str) \in TrueWords THEN 1 ELSE 0 >>)
    ELSE IF Len(NoBlanks(value_str)) % 2 = 0
            /\ \A i \in 1..Len(NoBlanks(value_str)) : IsHexDigit(NoBlanks(value_str)[i])
         THEN Returned([i \in 1..(Len(NoBlanks(value_str)) \div 2) |->
                           16 * HexVal(NoBlanks(value_str)[2 * i - 1])
                              + HexVal(NoBlanks(value_str)[2 * i])])
         ELSE ValueError(value_str, "hex")

-----------------------------------------------------------------------------
(* The IMU record and process_imu_orientation.  The model keeps the sample  *)
(* counter and the magnetometer's x axis of a record; the field lies on     *)
(* that axis, so a norm is an absolute value.  One count is 100 / 65536     *)
(* gauss.                                                                    *)

ImuLen == 22

\* just under one gauss, in counts
MagUnit == 655

\* the steady field of the specifications that are not about the magnetometer
QuietMag == 2 * MagUnit

\* the offset and the scale a calibration file gives, for instance
LoadedOffset == MagUnit
LoadedScale == 1

Abs(x) == IF x < 0 THEN 0 - x ELSE x

\* the first len bytes the device sends for a record (zeros past the 22nd)
ImuPayload(sample, mag_x, len) ==
    LET record == pack(sample, 4) \o [i \in 1..12 |-> 0] \o pack(mag_x, 2)
                      \o << 0, 0, 0, 0 >>
    IN  [i \in 1..len |-> IF i <= ImuLen THEN record[i] ELSE 0]

\* (mag_raw - self.mag_offset) * self.mag_scale
Calibrated(s, mag_raw) ==
    IF s.mag_calibration = "identity" THEN (mag_raw - 0) * 1
    ELSE (mag_raw - LoadedOffset) * LoadedScale

\* np.linalg.norm(mag) > 0.01
HasField(mag) == Abs(mag) * 100 * 100 > 65536

\* np.linalg.norm(mag - self.last_mag) > 2.0
TooFar(mag, last) == Abs(mag - last) * 100 > 2 * 65536

process_imu_orientation(s, imu_values) ==
    LET mag == Calibrated(s, imu_values[8])
        is_mag_valid == HasField(mag) /\ ~TooFar(mag, s.last_mag)
    IN  [s EXCEPT !.last_mag = mag,
                  !.mag_fusion = IF is_mag_valid THEN "9dof" ELSE "6dof"]

\* the Qt client tests hasattr(self, 'last_mag_calibrated'), an attribute
\* that is never set: the change of the field is not looked at
qt_process_imu_orientation(s, imu_values) ==
    LET mag == Calibrated(s, imu_values[8])
        is_mag_valid == HasField(mag)
    IN  [s EXCEPT !.last_mag = mag,
                  !.mag_fusion = IF is_mag_valid THEN "9dof" ELSE "6dof"]

-----------------------------------------------------------------------------
(* process_imu_orientation: the yaw smoothing.  Angles are whole degrees and *)
(* the coefficient alpha_yaw is a / AlphaDen (the code sets alpha_yaw = 1);  *)
(* the smoothed yaw is kept in units of 1 / AlphaDen degree.                 *)

Turn == 360

delta_yaw_NoWrap(last_yaw, yaw) == yaw - last_yaw

\* ((yaw - self.last_yaw + 180) % 360) - 180
delta_yaw(last_yaw, yaw) == ((yaw - last_yaw + 180) % Turn) - 180

\* self.last_yaw + alpha_yaw * delta_yaw, then (smooth_yaw + 360) % 360
smooth_yaw(last_yaw, yaw, a) ==
    ((last_yaw * AlphaDen + a * delta_yaw(last_yaw, yaw)) + Turn * AlphaDen)
        % (Turn * AlphaDen)

-----------------------------------------------------------------------------
(* REP socket *)

send_string(s, r) ==
    [s EXCEPT !.last_reply = r, !.zmq_state = "recv",
              !.efsm = (s.efsm \/ s.zmq_state # "send")]

recv_string(s) ==
    [s EXCEPT !.last_reply = "", !.zmq_state = "send",
              !.efsm = (s.efsm \/ s.zmq_state # "recv")]

-----------------------------------------------------------------------------
(* HeadlessOptoGridClient: session logger *)

flush_imu_buffer_NoWrite(s) == [s EXCEPT !.imu_data_buffer = << >>]

flush_imu_buffer(s) ==
    IF s.imu_data_buffer = << >> THEN s
    ELSE IF s.writer
         THEN [s EXCEPT !.files = WriteChunk(s.files, s.imu_data_buffer),
                        !.imu_data_buffer = << >>]
         ELSE [s EXCEPT !.imu_data_buffer = << >>]

\* returns the object and whether a filename (not None) is returned
start_IMU_logging(s, fs_ok) ==
    IF s.imu_logging_active THEN [st |-> s, ret |-> FALSE]
    ELSE IF fs_ok
         THEN [st |-> [s EXCEPT !.writer = TRUE, !.imu_logging_active = TRUE,
                                !.files = Append(s.files, << >>)],
               ret |-> TRUE]
         ELSE [st |-> s, ret |-> FALSE]

stop_IMU_logging_KeepActive(s) ==
    IF ~s.imu_logging_active THEN s
    ELSE LET s1 == IF s.imu_data_buffer # << >> THEN flush_imu_buffer(s) ELSE s
         IN  [s1 EXCEPT !.writer = FALSE]

stop_IMU_logging(s) ==
    IF ~s.imu_logging_active THEN s
    ELSE LET s1 == IF s.imu_data_buffer # << >> THEN flush_imu_buffer(s) ELSE s
         IN  [s1 EXCEPT !.writer = FALSE, !.imu_logging_active = FALSE]

handle_sync_FirstRow(s, sync_value) ==
    IF s.imu_data_buffer # << >>
    THEN [st |-> [s EXCEPT !.imu_data_buffer =
                      [@ EXCEPT ![1] = RowSetItem(@, 10, sync_value)]],
          ret |-> "Sync Written"]
    ELSE [st |-> s, ret |-> "No IMU data buffer available"]

\* returns the object and the reply text
handle_sync(s, sync_value) ==
    IF s.imu_data_buffer # << >>
    THEN [st |-> [s EXCEPT !.imu_data_buffer = SetLast(@, 10, sync_value)],
          ret |-> "Sync Written"]
    ELSE [st |-> s, ret |-> "No IMU data buffer available"]

\* data: the notification's bytes.  A text that int() cannot read raises
\* before anything is assigned; the handler logs the exception and returns
handle_imu_data_notification_Late(s, data) ==
    LET imu_values_str == decode_value(ImuType, data)
    IN  IF IntListRaises(imu_values_str) THEN s
        ELSE LET imu_values == IntList(imu_values_str)
                 s1 == process_imu_orientation([s EXCEPT !.imu_counter = @ + 1], imu_values)
             IN  IF ~s1.imu_enable_state THEN s1
                 ELSE LET row == Row(imu_values[1], s1.current_battery_voltage)
                          s2 == [s1 EXCEPT !.current_battery_voltage = None,
                                           !.imu_data_buffer = Append(@, row)]
                      IN  IF Len(s2.imu_data_buffer) > FlushThreshold
                          THEN flush_imu_buffer(s2) ELSE s2

handle_imu_data_notification_KeepBattery(s, data) ==
    LET imu_values_str == decode_value(ImuType, data)
    IN  IF IntListRaises(imu_values_str) THEN s
        ELSE LET imu_values == IntList(imu_values_str)
                 s1 == process_imu_orientation([s EXCEPT !.imu_counter = @ + 1], imu_values)
             IN  IF ~s1.imu_enable_state THEN s1
                 ELSE LET row == Row(imu_values[1], s1.current_battery_voltage)
                          s2 == [s1 EXCEPT !.imu_data_buffer = Append(@, row)]
                      IN  IF Len(s2.imu_data_buffer) >= FlushThreshold
                          THEN flush_imu_buffer(s2) ELSE s2

handle_imu_data_notification(s, data) ==
    LET imu_values_str == decode_value(ImuType, data)
    IN  IF IntListRaises(imu_values_str) THEN s
        ELSE LET imu_values == IntList(imu_values_str)
                 s1 == process_imu_orientation([s EXCEPT !.imu_counter = @ + 1], imu_values)
             IN  IF ~s1.imu_enable_state THEN s1
                 ELSE LET row == Row(imu_values[1], s1.current_battery_voltage)
                          s2 == [s1 EXCEPT !.current_battery_voltage = None,
                                           !.imu_data_buffer = Append(@, row)]
                      IN  IF Len(s2.imu_data_buffer) >= FlushThreshold
                          THEN flush_imu_buffer(s2) ELSE s2

on_disconnect_callback(s) ==
    LET s1 == IF s.imu_data_buffer # << >> THEN flush_imu_buffer(s) ELSE s
    IN  IF s1.imu_logging_active
        THEN [stop_IMU_logging(s1) EXCEPT !.imu_enable_state = FALSE]
        ELSE s1

-----------------------------------------------------------------------------
(* HeadlessOptoGridClient: dispatcher.  A handler runs to its next await    *)
(* (Await) or to the reply that run() sends for it (Respond).               *)

NotConnected == "Not connected to device"

Respond_NoReply(s, r) == [s EXCEPT !.zpc = "poll", !.zarg = 0]

Respond(s, r) == send_string([s EXCEPT !.zpc = "poll", !.zarg = 0], r)
Await(s, stage) == [s EXCEPT !.zpc = stage]

HeadlessOrder ==
    << "optogrid.trigger", "optogrid.scan", "optogrid.status", "optogrid.connect",
       "optogrid.gattread", "optogrid.enableIMU", "optogrid.disableIMU",
       "optogrid.startIMULog", "optogrid.stopIMULog", "optogrid.readbattery",
       "optogrid.readuLEDCheck", "optogrid.readlastStim", "optogrid.sync",
       "optogrid.toggleStatusLED", "optogrid.toggleShamLED", "optogrid.program" >>

\* the first token of the if/elif chain that the message text contains
FirstMatch(order, toks) ==
    IF \E i \in 1..Len(order) : order[i] \in toks
    THEN order[CHOOSE i \in 1..Len(order) :
                  /\ order[i] \in toks
                  /\ \A j \in 1..(i - 1) : order[j] \notin toks]
    ELSE "unknown"

send_trigger_NoGuard(s) == Await(s, "trigger_write")

send_trigger(s) ==
    IF ~s.connected THEN Respond(s, NotConnected) ELSE Await(s, "trigger_write")

enable_imu(s) ==
    IF ~s.connected THEN Respond(s, NotConnected) ELSE Await(s, "enable_write")

disable_imu(s) ==
    IF ~s.connected THEN Respond(s, NotConnected) ELSE Await(s, "disable_write")

read_battery(s) ==
    IF ~s.connected THEN Respond(s, NotConnected) ELSE Await(s, "bat_read_name")

gatt_read(s) ==
    IF ~s.connected THEN Respond(s, NotConnected) ELSE Await(s, "gatt_read")

read_uled_check(s) ==
    IF ~s.connected THEN Respond(s, NotConnected) ELSE Await(s, "uled_read")

read_last_stim_time(s) ==
    IF ~s.connected THEN Respond(s, NotConnected) ELSE Await(s, "stim_read")

toggle_status_led(s) ==
    IF ~s.connected THEN Respond(s, NotConnected) ELSE Await(s, "status_led_write")

toggle_sham_led(s) ==
    IF ~s.connected THEN Respond(s, NotConnected) ELSE Await(s, "sham_led_write")

\* after the old connection is gone: by address (zarg 1) or by scanning (zarg 0)
connect_open(s, kind) ==
    IF kind = "addr" THEN Await([s EXCEPT !.zarg = 1], "connect_conn")
    ELSE Await([s EXCEPT !.zarg = 0], "connect_scan")

connect_device(s, kind) ==
    IF s.connected
    THEN Await([s EXCEPT !.zarg = IF kind = "addr" THEN 1 ELSE 0], "connect_disc")
    ELSE connect_open(s, kind)

\* p.eval: what eval(program_data) gives; p.n: settings of the dict that are mapped
program_device(s, p) ==
    IF ~s.connected THEN Respond(s, NotConnected)
    ELSE IF p.eval # "dict" THEN Respond(s, "Programming failed")
    ELSE IF p.n = 0 THEN Respond(s, "Opto Programmed")
    ELSE Await([s EXCEPT !.zarg = p.n], "prog_write")

handle_command(s, m) ==
    LET op == FirstMatch(HeadlessOrder, m.toks)
    IN  CASE op = "optogrid.trigger" -> send_trigger(s)
          [] op = "optogrid.scan" -> Await(s, "scan")
          [] op = "optogrid.status" ->
                Respond(s, IF s.connected THEN "Connected to device" ELSE "Disconnected")
          [] op = "optogrid.connect" ->
                IF m.arg = "none" THEN Respond(s, "ERROR: list index out of range")
                ELSE connect_device(s, m.arg)
          [] op = "optogrid.gattread" -> gatt_read(s)
          [] op = "optogrid.enableIMU" -> enable_imu(s)
          [] op = "optogrid.disableIMU" -> disable_imu(s)
          [] op = "optogrid.startIMULog" ->
                IF m.arg # "ok" THEN Respond(s, "ERROR: Invalid startIMULog parameters")
                ELSE enable_imu(s)
          [] op = "optogrid.stopIMULog" -> disable_imu(s)
          [] op = "optogrid.readbattery" -> read_battery(s)
          [] op = "optogrid.readuLEDCheck" -> read_uled_check(s)
          [] op = "optogrid.readlastStim" -> read_last_stim_time(s)
          [] op = "optogrid.sync" ->
                IF m.arg # "ok" THEN Respond(s, "ERROR: invalid sync value")
                ELSE LET h == handle_sync(s, SyncValue) IN Respond(h.st, h.ret)
          [] op = "optogrid.toggleStatusLED" ->
                IF m.arg # "ok" THEN Respond(s, "ERROR: Invalid value for toggleStatusLED")
                ELSE toggle_status_led(s)
          [] op = "optogrid.toggleShamLED" ->
                IF m.arg # "ok" THEN Respond(s, "ERROR: Invalid value for toggleShamLED")
                ELSE toggle_sham_led(s)
          [] op = "optogrid.program" ->
                Await(send_string(s, "Ready for program data"), "prog_recv")
          [] OTHER -> Respond(s, "Unknown command")

\* run(): message = recv_string(NOBLOCK); response = await handle_command(message)
run_recv(s, m) == handle_command(recv_string(s), m)

program_recv_NoCatch(s, p) == program_device(recv_string(s), p)

\* handle_command, program branch: the blocking recv_string() and eval()
program_recv(s, p) ==
    LET s1 == recv_string(s)
    IN  IF p.eval = "raise" THEN Respond(s1, "ERROR: invalid program data")
        ELSE program_device(s1, p)

\* load_magnetometer_calibration(device_name); cal: the device's calibration
\* file is "missing", lacks the mag_x/mag_y/mag_z columns ("nocols") or is "ok"
load_magnetometer_calibration(s, cal) ==
    IF cal = "ok" THEN [s EXCEPT !.mag_calibration = "loaded"] ELSE s

\* The awaited device operation ended with outcome o ("ok", "err", or "alt":
\* nothing found / undecodable value); the handler runs on to its next await
\* or to its reply.  fs_ok: the session file can be created.
resume(s, o, fs_ok, cal) ==
    CASE s.zpc = "trigger_write" ->
            IF o = "ok" THEN Respond(handle_sync(s, TriggerSync).st, "Opto Triggered")
            ELSE Respond(s, "Trigger failed")
      [] s.zpc = "scan" ->
            Respond(s, IF o = "ok" THEN "device list"
                       ELSE IF o = "alt" THEN "No BLE devices found" ELSE "Scan failed")
      [] s.zpc = "connect_disc" ->
            IF o = "ok"
            THEN connect_open(IF s.connected
                              THEN on_disconnect_callback([s EXCEPT !.connected = FALSE])
                              ELSE s,
                              IF s.zarg = 1 THEN "addr" ELSE "name")
            ELSE Respond(s, "Connection failed")
      [] s.zpc = "connect_scan" ->
            IF o = "ok" THEN Await(s, "connect_conn")
            ELSE IF o = "alt" THEN Respond(s, "Device not found")
            ELSE Respond(s, "Connection failed")
      [] s.zpc = "connect_conn" ->
            IF o = "ok" THEN Await([s EXCEPT !.connected = TRUE], "connect_notify")
            ELSE Respond(s, "Connection failed")
      [] s.zpc = "connect_notify" ->
            IF o = "ok"
            THEN IF s.zarg = 1 THEN Await(s, "connect_readname")
                 ELSE Respond(load_magnetometer_calibration(s, cal), ConnectedReply)
            ELSE Respond(s, "Connection failed")
      [] s.zpc = "connect_readname" ->
            Respond(load_magnetometer_calibration(s, cal), ConnectedReply)
      [] s.zpc = "gatt_read" ->
            Respond(s, IF o = "ok" THEN "GATT value" ELSE "GATT read failed")
      [] s.zpc = "enable_write" ->
            IF o # "ok" THEN Respond(s, "IMU enable failed")
            ELSE IF ~s.imu_logging_active THEN Await(s, "enable_readid")
            ELSE Respond([s EXCEPT !.imu_enable_state = TRUE],
                         "IMU enabled, and logging started")
      [] s.zpc = "enable_readid" ->
            LET r == start_IMU_logging(s, fs_ok)
            IN  IF ~r.ret THEN Respond(r.st, "IMU enabled but logging failed to start")
                ELSE Respond([r.st EXCEPT !.imu_enable_state = TRUE],
                             "IMU enabled, and logging started")
      [] s.zpc = "disable_write" ->
            IF o # "ok" THEN Respond(s, "IMU disable failed")
            ELSE Respond([stop_IMU_logging(s) EXCEPT !.imu_enable_state = FALSE],
                         "IMU disabled, and logging stopped")
      [] s.zpc = "bat_read_name" ->
            IF o = "ok" THEN Await(s, "bat_read_volt")
            ELSE Respond(s, "Battery read failed")
      [] s.zpc = "bat_read_volt" ->
            IF o = "ok"
            THEN Respond([s EXCEPT !.current_battery_voltage = BatteryMv],
                         BatteryReply)
            ELSE Respond(s, "Battery read failed")
      [] s.zpc = "uled_read" ->
            Respond(s, IF o = "ok" THEN "uLED Check" ELSE "uLED Check read failed")
      [] s.zpc = "stim_read" ->
            Respond(s, IF o = "ok" THEN "Last Stim Time" ELSE "Last Stim Time read failed")
      [] s.zpc = "status_led_write" ->
            Respond(s, IF o = "ok" THEN "Status LED turned on"
                       ELSE "Failed to toggle Status LED")
      [] s.zpc = "sham_led_write" ->
            Respond(s, IF o = "ok" THEN "Sham LED turned on"
                       ELSE "Failed to toggle Sham LED")
      [] s.zpc = "prog_write" ->
            IF o # "ok" THEN Respond(s, "Programming failed")
            ELSE IF s.zarg = 1 THEN Respond(s, "Opto Programmed")
            ELSE Await([s EXCEPT !.zarg = @ - 1], "prog_write")

\* GPIO thread: schedule do_send_trigger() on the loop when connected
gpio_trigger_callback(s) ==
    IF s.connected THEN [s EXCEPT !.gpio_tasks = @ + 1] ELSE s

\* the scheduled do_send_trigger() ran: its write ended with outcome o
do_send_trigger(s, o) ==
    LET s1 == [s EXCEPT !.gpio_tasks = @ - 1]
    IN  IF o = "ok" THEN handle_sync(s1, TriggerSync).st ELSE s1

\* the scheduled do_send_trigger() runs up to its await of write_gatt_char;
\* without a connection the call raises at once and the task ends
do_send_trigger_start(s) ==
    IF ~s.connected THEN [s EXCEPT !.gpio_tasks = @ - 1]
    ELSE [s EXCEPT !.gpio_tasks = @ - 1, !.gpio_writes = @ + 1]

\* the write awaited by do_send_trigger() ended with outcome o
do_send_trigger_written(s, o) ==
    LET s1 == [s EXCEPT !.gpio_writes = @ - 1]
    IN  IF o = "ok" THEN handle_sync(s1, TriggerSync).st ELSE s1

\* stages of run() at which handle_command awaits a GATT operation of the
\* connected device (start_notify, read_gatt_char, write_gatt_char)
GattStages ==
    {"trigger_write", "gatt_read", "enable_write", "enable_readid", "disable_write",
     "bat_read_name", "bat_read_volt", "uled_read", "stim_read", "status_led_write",
     "sham_led_write", "prog_write", "connect_notify", "connect_readname"}

\* GATT operations that have been started and are not over
gatt_outstanding(s) == (IF s.zpc \in GattStages THEN 1 ELSE 0) + s.gpio_writes

-----------------------------------------------------------------------------
(* Inputs *)

ArgsOf(tok) ==
    CASE tok = "optogrid.connect" -> {"none", "name", "addr"}
      [] tok = "connect" -> {"none", "name"}
      [] tok \in {"optogrid.sync", "optogrid.startIMULog",
                  "optogrid.toggleStatusLED", "optogrid.toggleShamLED",
                  "sync", "status_led"} ->
            {"none", "bad", "ok"}
      [] OTHER -> {"none"}

HeadlessTokens == {HeadlessOrder[i] : i \in 1..Len(HeadlessOrder)}

Msgs(tokens) ==
    {m \in [toks : {{t} : t \in tokens} \cup {{}},
            arg : {"none", "bad", "ok", "name", "addr"}] :
        IF m.toks = {} THEN m.arg = "none"
        ELSE \A t \in m.toks : m.arg \in ArgsOf(t)}

HeadlessMsgs == Msgs(HeadlessTokens)

\* messages whose text contains two opcode tokens
PairMsgs(tokens) ==
    {m \in [toks : {{t, u} : t, u \in tokens},
            arg : {"none", "bad", "ok", "name", "addr"}] :
        /\ Cardinality(m.toks) = 2
        /\ \A t \in m.toks : m.arg \in ArgsOf(t)}

HeadlessPairMsgs == PairMsgs(HeadlessTokens)

\* the requests of a logging session
LogTokens ==
    {"optogrid.connect", "optogrid.enableIMU", "optogrid.disableIMU",
     "optogrid.sync", "optogrid.trigger"}

LogMsgs == Msgs(LogTokens)

Payloads == [eval : {"raise", "other", "dict"}, n : 0..MaxSettings]

\* outcomes the awaited operation can have in state s
Outcomes(s) ==
    CASE s.zpc \in {"scan", "connect_scan", "q_scan", "og_scan"} -> {"ok", "alt", "err"}
      [] s.zpc \in {"connect_disc", "connect_conn", "q_disc", "q_conn", "og_conn"} ->
            {"ok", "err"}
      [] s.zpc = "bat_read_volt" ->
            IF s.connected THEN {"ok", "alt", "err"} ELSE {"err"}
      [] OTHER -> IF s.connected THEN {"ok", "err"} ELSE {"err"}

\* maxfiles: the session files the host has room for
FsOutcomesOf(s, maxfiles) ==
    IF s.zpc \in {"enable_readid", "og_enable_readid"}
    THEN IF Len(s.files) < maxfiles THEN BOOLEAN ELSE {FALSE}
    ELSE {TRUE}

FsOutcomes(s) == FsOutcomesOf(s, MaxSessions)

\* the step that ends a connect loads the calibration
CalOutcomes(s, cals) ==
    IF s.zpc \in {"connect_notify", "connect_readname", "og_notify"} THEN cals
    ELSE {"missing"}

\* the slot or move that can create a session file
QtFsOutcomes(s) ==
    IF s.slot.op = "optogrid.enableIMU" /\ Len(s.files) < MaxSessions THEN BOOLEAN
    ELSE IF s.slot.op = "optogrid.enableIMU" THEN {FALSE} ELSE {TRUE}

LoopFree_Always == TRUE

\* the event loop is free to run callbacks and tasks (not inside a blocking call)
LoopFree == zpc # "prog_recv"

-----------------------------------------------------------------------------
(* Actions, headless *)

HRecv(msgs) ==
    /\ backend = "headless" /\ zpc = "poll"
    /\ \E m \in msgs : Set(run_recv(St, m))

HRecvProgramData ==
    /\ backend = "headless" /\ zpc = "prog_recv"
    /\ \E p \in Payloads : Set(program_recv(St, p))

\* cals: the calibration files the host may hold for the device
HAwaitDoneOf(cals, maxfiles) ==
    /\ backend = "headless" /\ zpc \notin {"poll", "prog_recv"}
    /\ \E o \in Outcomes(St), f \in FsOutcomesOf(St, maxfiles),
          c \in CalOutcomes(St, cals) :
          Set(resume(St, o, f, c))

HAwaitDoneCal(cals) == HAwaitDoneOf(cals, MaxSessions)

\* the session part of the object: row buffer, writer, logging flags, files
Session(s) ==
    << s.imu_data_buffer, s.writer, s.imu_logging_active, s.imu_enable_state, s.files >>

\* disable_imu's write is over; when it succeeded, stop_IMU_logging() is
\* called: the call is recorded with whether a session was active and whether
\* the call changed the session part of the object
HDisableStop ==
    /\ backend = "headless" /\ zpc = "disable_write"
    /\ \E o \in Outcomes(St) :
          LET n == resume(St, o, TRUE, "missing")
          IN  IF o # "ok" THEN Set(n)
              ELSE Set([n EXCEPT
                    !.codec_call = [fn |-> "stop_IMU_logging", type_str |-> "",
                                    arg |-> << St.imu_logging_active >>],
                    !.codec_ret = [raised |-> FALSE, kind |-> "session",
                                   val |-> << Session(stop_IMU_logging(St)) = Session(St) >>,
                                   of |-> ""]])

\* on a host that holds no calibration file
HAwaitDone == HAwaitDoneCal({"missing"})

\* the device notifies its next record: mags the fields it may measure, lens
\* the lengths its payload may have
HImuNotificationOf(max, mags, lens) ==
    /\ backend = "headless" /\ connected /\ LoopFree
    /\ dev_sample < max
    /\ \E mag \in mags, len \in lens :
          Set(handle_imu_data_notification([St EXCEPT !.dev_sample = @ + 1],
                                           ImuPayload(dev_sample + 1, mag, len)))

HImuNotification(max) == HImuNotificationOf(max, {QuietMag}, {ImuLen})

HDisconnect ==
    /\ backend = "headless" /\ connected /\ LoopFree
    /\ Set(on_disconnect_callback([St EXCEPT !.connected = FALSE]))

HGpioEdge ==
    /\ backend = "headless" /\ gpio_tasks + gpio_writes < MaxGpioTasks
    /\ Set(gpio_trigger_callback(St))

HGpioTrigger ==
    /\ backend = "headless" /\ gpio_tasks > 0 /\ LoopFree
    /\ \E o \in (IF connected THEN {"ok", "err"} ELSE {"err"}) :
          Set(do_send_trigger(St, o))

\* the GATT operation that handle_command awaits never completes (scanning
\* and connecting have timeouts of their own); run() awaits handle_command
\* without a timeout
HOperationHangs ==
    /\ backend = "headless" /\ zpc \in GattStages /\ op_wait = "none"
    /\ Set([St EXCEPT !.op_wait = "hung"])

\* the loop runs the scheduled do_send_trigger() task up to its await
HGpioWriteStart ==
    /\ backend = "headless" /\ gpio_tasks > 0 /\ LoopFree
    /\ Set(do_send_trigger_start(St))

\* the write that a do_send_trigger() task awaits is over
HGpioWriteDone ==
    /\ backend = "headless" /\ gpio_writes > 0 /\ LoopFree
    /\ \E o \in (IF connected THEN {"ok", "err"} ELSE {"err"}) :
          Set(do_send_trigger_written(St, o))

-----------------------------------------------------------------------------
(* data/parquet_test.py, plot_parquet_data: the sample continuity analysis *)
(* of a session's sample column (int64).                                   *)

\* np.diff(df['sample'])
diff(samples) ==
    [i \in 1..(IF samples = << >> THEN 0 ELSE Len(samples) - 1) |->
        samples[i + 1] - samples[i]]

expected_diff == 1

missing_samples_Forward(sample_diff) ==
    {i - 1 : i \in {j \in 1..Len(sample_diff) : sample_diff[j] > expected_diff}}

\* np.where(sample_diff != expected_diff)[0]: positions counted from 0
missing_samples(sample_diff) ==
    {i - 1 : i \in {j \in 1..Len(sample_diff) : sample_diff[j] # expected_diff}}

\* len(np.where(sample_diff != 1)[0])
missing_count(sample_diff) == Cardinality(missing_samples(sample_diff))

\* np.sum(sample_diff[sample_diff > 1] - 1)
RECURSIVE total_missing(_)
total_missing(sample_diff) ==
    IF sample_diff = << >> THEN 0
    ELSE (IF Head(sample_diff) > 1 THEN Head(sample_diff) - 1 ELSE 0)
         + total_missing(Tail(sample_diff))

-----------------------------------------------------------------------------
(* python-optogrid, the client library on the REQ side: what its methods   *)
(* return for the reply they receive.                                      *)

\* Python's  needle in s  on text
Contains(needle, s) ==
    \E i \in 1..(Len(s) - Len(needle) + 1) :
        SubSeq(s, i, i + Len(needle) - 1) = needle

\* OptoGrid.enable_imu: 'IMU enabled and logging started' in reply
lib_enable_imu(reply) == Contains("IMU enabled and logging started", reply)

\* OptoGrid.disable_imu: 'IMU disabled and logging stopped' in reply
lib_disable_imu(reply) == Contains("IMU disabled and logging stopped", reply)

-----------------------------------------------------------------------------
(* History of what the REQ peer and the device have seen of a logging      *)
(* session: s is the object before the step, n the object after it.        *)

EnabledReply == "IMU enabled, and logging started"
DisabledReply == "IMU disabled, and logging stopped"

\* a reply was sent, or the connection ended, in the step
Watch(s, n) ==
    LET n1 == IF s.win_open /\ s.connected /\ ~n.connected
              THEN [n EXCEPT !.win_cut = TRUE] ELSE n
    IN  IF s.zmq_state = "send" /\ n1.zmq_state = "recv"
           /\ n1.last_reply = EnabledReply /\ ~n1.win_open
        THEN [n1 EXCEPT !.win_open = TRUE, !.win = << >>, !.win_cut = FALSE]
        ELSE n1

\* message m was received in the step
WatchRecv(s, m, n) ==
    IF FirstMatch(HeadlessOrder, m.toks) \in {"optogrid.disableIMU", "optogrid.stopIMULog"}
    THEN Watch([s EXCEPT !.zmq_state = "send"], [n EXCEPT !.win_open = FALSE])
    ELSE Watch([s EXCEPT !.zmq_state = "send"], n)

\* the record with this sample number was received in the step
WatchRecord(s, sample, n) ==
    IF s.win_open THEN [n EXCEPT !.win = Append(@, sample)] ELSE n

\* the headless actions, with the history kept

WRecv(msgs) ==
    /\ backend = "headless" /\ zpc = "poll"
    /\ \E m \in msgs : Set(WatchRecv(St, m, run_recv(St, m)))

WAwaitDone ==
    /\ backend = "headless" /\ zpc \notin {"poll", "prog_recv"}
    /\ \E o \in Outcomes(St), f \in FsOutcomes(St) :
          Set(Watch(St, resume(St, o, f, "missing")))

WImuNotification(max) ==
    /\ backend = "headless" /\ connected /\ LoopFree
    /\ dev_sample < max
    /\ Set(WatchRecord(St, dev_sample + 1,
            handle_imu_data_notification([St EXCEPT !.dev_sample = @ + 1],
                                         ImuPayload(dev_sample + 1, QuietMag, ImuLen))))

WDisconnect ==
    /\ backend = "headless" /\ connected /\ LoopFree
    /\ Set(Watch(St, on_disconnect_callback([St EXCEPT !.connected = FALSE])))

-----------------------------------------------------------------------------
(* Qt client: ZMQListener (its own thread), the request slots of            *)
(* OptoGridBLEClient (GUI thread) and the coroutines they start on the      *)
(* BLEManager loop.  A slot runs as one step; a coroutine runs from one     *)
(* await to the next.  zpc is the position of the coroutine started for the *)
(* request, "idle" when there is none.                                      *)

NoSlot == [op |-> "none", n |-> 0]

put(s, r) == [s EXCEPT !.reply_queue = Append(@, r)]

Idle(s) == [s EXCEPT !.zpc = "idle", !.zarg = 0]

qt_flush_imu_buffer(s) ==
    IF s.writer /\ s.imu_data_buffer # << >>
    THEN [s EXCEPT !.files = WriteChunk(s.files, s.imu_data_buffer),
                   !.imu_data_buffer = << >>]
    ELSE s

qt_handle_imu_data_notification(s, data) ==
    LET imu_values_str == decode_value(ImuType, data)
    IN  IF IntListRaises(imu_values_str) THEN s
        ELSE LET imu_values == IntList(imu_values_str)
                 s1 == qt_process_imu_orientation([s EXCEPT !.imu_counter = @ + 1], imu_values)
             IN  IF ~s1.imu_enable_state THEN s1
                 ELSE LET row == Row(imu_values[1], s1.current_battery_voltage)
                          s2 == [s1 EXCEPT !.current_battery_voltage = None,
                                           !.imu_data_buffer = Append(@, row)]
                      IN  IF Len(s2.imu_data_buffer) >= FlushThreshold
                          THEN qt_flush_imu_buffer(s2) ELSE s2

qt_on_disconnect_callback(s) ==
    LET s1 == IF s.imu_data_buffer # << >> THEN qt_flush_imu_buffer(s) ELSE s
    IN  IF s1.writer
        THEN [s1 EXCEPT !.writer = FALSE, !.imu_enable_state = FALSE]
        ELSE s1

\* fs_ok: the two name reads and open() succeed
toggle_imu_enable(s, fs_ok) ==
    IF ~s.connected THEN s
    ELSE IF ~s.imu_enable_state
         THEN IF fs_ok
              THEN [s EXCEPT !.imu_enable_state = TRUE, !.writer = TRUE,
                             !.files = Append(@, << >>)]
              ELSE s
         ELSE [s EXCEPT !.imu_enable_state = FALSE, !.writer = FALSE]

handle_enable_imu_request(s, fs_ok) ==
    IF ~s.imu_enable_state
    THEN put(toggle_imu_enable(s, fs_ok), "IMU enabled, and logging started")
    ELSE s

handle_disable_imu_request(s) ==
    IF s.imu_enable_state
    THEN put(toggle_imu_enable(s, TRUE), "IMU disabled, and logging stopped")
    ELSE s

qt_handle_sync_request(s, sync_value) ==
    IF s.imu_data_buffer # << >>
    THEN put([s EXCEPT !.imu_data_buffer = SetLast(@, -1, sync_value)], "Sync Written")
    ELSE s

handle_read_battery_request(s) ==
    IF ~s.connected THEN put(s, "Error: Not connected to device")
    ELSE [s EXCEPT !.bat_handler = TRUE, !.bat_bar = FALSE, !.zpc = "q_bat_read"]

\* battery_voltage_read.emit(voltage): every connected handler runs
battery_voltage_read_emit(s) ==
    LET s1 == IF s.bat_bar THEN [s EXCEPT !.current_battery_voltage = BatteryMv] ELSE s
    IN  IF s.bat_handler
        THEN [put(s1, BatteryReply) EXCEPT !.bat_bar = TRUE]
        ELSE s1

\* read_battery_voltage() called from the GUI (button, on_connect_complete)
read_battery_voltage(s) ==
    IF s.connected THEN [s EXCEPT !.gui_bat = @ + 1] ELSE s

on_connect_complete(s) == read_battery_voltage(s)

handle_program_request(s, n) ==
    IF n = 0 THEN put(s, "Opto Programmed")
    ELSE [s EXCEPT !.zpc = "q_prog_write", !.zarg = n]

\* the GUI thread runs the slot connected to the request signal
qt_slot(s, fs_ok) ==
    LET r == s.slot
        s0 == [s EXCEPT !.slot = NoSlot]
    IN  CASE r.op = "optogrid.trigger" -> [s0 EXCEPT !.zpc = "q_trigger_write"]
          [] r.op = "optogrid.readbattery" -> handle_read_battery_request(s0)
          [] r.op = "optogrid.sync" -> qt_handle_sync_request(s0, SyncValue)
          [] r.op = "optogrid.connect" -> [s0 EXCEPT !.zpc = "q_scan"]
          [] r.op = "optogrid.enableIMU" -> handle_enable_imu_request(s0, fs_ok)
          [] r.op = "optogrid.disableIMU" -> handle_disable_imu_request(s0)
          [] r.op = "optogrid.toggleStatusLED" -> [s0 EXCEPT !.zpc = "q_led_write"]
          [] r.op = "optogrid.program" -> handle_program_request(s0, r.n)

\* the awaited operation of the request's coroutine ended with outcome o
qt_resume(s, o) ==
    CASE s.zpc = "q_trigger_write" ->
            Idle(put(s, IF o = "ok" THEN "Opto Triggered" ELSE "Trigger failed"))
      [] s.zpc = "q_led_write" ->
            Idle(put(s, IF o = "ok" THEN "Status LED turned on"
                        ELSE "Failed to toggle Status LED"))
      [] s.zpc = "q_prog_write" ->
            IF o # "ok" THEN Idle(s)
            ELSE IF s.zarg = 1 THEN Idle(put(s, "Opto Programmed"))
            ELSE [s EXCEPT !.zarg = @ - 1]
      [] s.zpc = "q_bat_read" ->
            IF o = "ok" THEN Idle(battery_voltage_read_emit(s)) ELSE Idle(s)
      [] s.zpc = "q_scan" ->
            IF o = "ok"
            THEN [s EXCEPT !.zpc = IF s.connected THEN "q_disc" ELSE "q_conn"]
            ELSE IF o = "alt" THEN Idle(put(s, "Device not found"))
            ELSE Idle(put(s, "Connection failed"))
      [] s.zpc = "q_disc" ->
            IF o = "ok"
            THEN [(IF s.connected
                   THEN qt_on_disconnect_callback([s EXCEPT !.connected = FALSE])
                   ELSE s) EXCEPT !.zpc = "q_conn"]
            ELSE Idle(put([s EXCEPT !.connected = FALSE], "Connection failed"))
      [] s.zpc = "q_conn" ->
            IF o = "ok" THEN [s EXCEPT !.connected = TRUE, !.zpc = "q_browse"]
            ELSE Idle(put([s EXCEPT !.connected = FALSE], "Connection failed"))
      [] s.zpc = "q_browse" ->
            IF o = "ok" THEN Idle(on_connect_complete(put(s, ConnectedReply)))
            ELSE Idle(put([s EXCEPT !.connected = FALSE], "Connection failed"))

QtOrder ==
    << "optogrid.trigger", "optogrid.readbattery", "optogrid.sync",
       "optogrid.connect", "optogrid.enableIMU", "optogrid.disableIMU",
       "optogrid.toggleStatusLED", "optogrid.program" >>

QtTokens == {QtOrder[i] : i \in 1..Len(QtOrder)}

QtMsgs == Msgs(QtTokens)

\* ZMQListener.run, a message that is not program data
listener_recv(s, m) ==
    LET op == FirstMatch(QtOrder, m.toks)
        s1 == [recv_string(s) EXCEPT !.zreq = op]
        emitted == [s1 EXCEPT !.slot = [op |-> op, n |-> 0], !.qpc = "get"]
        dead == [s1 EXCEPT !.qpc = "dead"]
    IN  CASE op \in {"optogrid.trigger", "optogrid.readbattery",
                     "optogrid.enableIMU", "optogrid.disableIMU"} -> emitted
          [] op = "optogrid.sync" ->
                IF m.arg # "ok" THEN send_string(s1, "Error writing sync") ELSE emitted
          [] op = "optogrid.connect" -> IF m.arg = "none" THEN dead ELSE emitted
          [] op = "optogrid.toggleStatusLED" -> IF m.arg # "ok" THEN dead ELSE emitted
          [] op = "optogrid.program" ->
                send_string([s1 EXCEPT !.expecting_program_data = TRUE],
                            "Ready for program data")
          [] OTHER -> send_string(s1, "Unknown command")

\* ZMQListener.run, the message after 'Ready for program data'
listener_recv_program(s, p) ==
    LET s1 == [recv_string(s) EXCEPT !.zreq = "payload"]
    IN  IF p.eval # "dict"
        THEN send_string([s1 EXCEPT !.expecting_program_data = FALSE],
                         "Error programming")
        ELSE [s1 EXCEPT !.slot = [op |-> "optogrid.program", n |-> p.n],
                        !.qpc = "get"]

\* reply = self.reply_queue.get(); self.socket.send_string(reply)
listener_get(s) ==
    send_string([s EXCEPT !.reply_queue = Tail(@), !.qpc = "recv",
                          !.expecting_program_data = FALSE],
                Head(s.reply_queue))

(* Actions, Qt *)

QRecv(msgs) ==
    /\ backend = "qt" /\ qpc = "recv" /\ ~expecting_program_data
    /\ slot = NoSlot /\ zpc = "idle" /\ Len(reply_queue) <= MaxQueue
    /\ \E m \in msgs : Set(listener_recv(St, m))

QRecvProgramData ==
    /\ backend = "qt" /\ qpc = "recv" /\ expecting_program_data
    /\ slot = NoSlot /\ zpc = "idle" /\ Len(reply_queue) <= MaxQueue
    /\ \E p \in Payloads : Set(listener_recv_program(St, p))

QGet ==
    /\ backend = "qt" /\ qpc = "get" /\ reply_queue # << >>
    /\ Set(listener_get(St))

QSlot ==
    /\ backend = "qt" /\ slot # NoSlot /\ zpc = "idle"
    /\ \E f \in QtFsOutcomes(St) : Set(qt_slot(St, f))

QTaskDone ==
    /\ backend = "qt" /\ zpc # "idle"
    /\ zpc = "q_browse" => gui_bat < MaxGuiReads
    /\ \E o \in Outcomes(St) : Set(qt_resume(St, o))

\* stages at which the request's coroutine awaits a GATT operation
QtGattStages == {"q_trigger_write", "q_browse", "q_bat_read", "q_led_write", "q_prog_write"}

\* the GATT operation awaited by the request's coroutine never completes
QOperationHangs ==
    /\ backend = "qt" /\ zpc \in QtGattStages /\ op_wait = "none"
    /\ Set([St EXCEPT !.op_wait = "hung"])

\* AsyncWorker.run: future.result(timeout=30) raises; error.emit(str(e)) runs
\* on_trigger_error / on_connect_error, which log and reset the GUI.  The
\* coroutine is not cancelled and nothing is put into reply_queue.
AsyncWorker_run_timeout(s) == [s EXCEPT !.op_wait = "expired"]

QWorkerTimeout ==
    /\ backend = "qt" /\ op_wait = "hung"
    /\ Set(AsyncWorker_run_timeout(St))

QGuiReadBattery ==
    /\ backend = "qt" /\ connected
    /\ gui_bat < MaxGuiReads /\ Len(reply_queue) < MaxQueue
    /\ Set(read_battery_voltage(St))

QGuiBatteryDone ==
    /\ backend = "qt" /\ gui_bat > 0
    /\ \E o \in (IF connected THEN {"ok", "err"} ELSE {"err"}) :
          Set(IF o = "ok" THEN battery_voltage_read_emit([St EXCEPT !.gui_bat = @ - 1])
              ELSE [St EXCEPT !.gui_bat = @ - 1])

QImuNotificationOf(max, mags, lens) ==
    /\ backend = "qt" /\ connected
    /\ dev_sample < max
    /\ \E mag \in mags, len \in lens :
          Set(qt_handle_imu_data_notification([St EXCEPT !.dev_sample = @ + 1],
                                              ImuPayload(dev_sample + 1, mag, len)))

QImuNotification(max) == QImuNotificationOf(max, {QuietMag}, {ImuLen})

QDisconnect ==
    /\ backend = "qt" /\ connected
    /\ Set(qt_on_disconnect_callback([St EXCEPT !.connected = FALSE]))

-----------------------------------------------------------------------------
(* OptoGridClient (optogrid_client.py): run() and handle_command() in       *)
(* headless mode, the record handler and the disconnect callback.           *)

og_flush_imu_buffer(s) == [s EXCEPT !.imu_data_buffer = << >>]

\* a logged row is written to the file at once and also kept in the buffer;
\* its sample column is the client's own counter
\* struct.unpack raises on a slice that is not 4, not 18 bytes long
og_handle_imu_data_notification(s, data) ==
    IF Len(Slice(data, 0, 4)) # 4 \/ Len(Slice(data, 4, 22)) # 18 THEN s
    ELSE LET imu_values == << from_bytes(Slice(data, 0, 4)) >> \o
                           [i \in 1..9 |-> unpack_h(Slice(data, 2 + 2 * i, 4 + 2 * i))]
                           \o << 0 >>
             s0 == process_imu_orientation(s, imu_values)
         IN  IF ~s0.writer THEN s0
             ELSE LET s1 == [s0 EXCEPT !.imu_counter = @ + 1]
                      row == Row(s1.imu_counter,
                                 IF s1.current_battery_voltage = None THEN 0
                                 ELSE s1.current_battery_voltage)
                      s2 == [s1 EXCEPT !.files = WriteChunk(@, << row >>),
                                       !.imu_data_buffer = Append(@, row)]
                  IN  IF Len(s2.imu_data_buffer) >= FlushThreshold
                      THEN og_flush_imu_buffer(s2) ELSE s2

og_on_disconnect_callback(s) ==
    LET s1 == IF s.imu_data_buffer # << >> THEN og_flush_imu_buffer(s) ELSE s
    IN  IF s1.writer THEN [s1 EXCEPT !.writer = FALSE] ELSE s1

OgNotConnected == "Not connected"

OgOrder ==
    << "connect", "trigger", "sync", "program", "enable_imu", "disable_imu",
       "battery", "uled_check", "status_led" >>

OgTokens == {OgOrder[i] : i \in 1..Len(OgOrder)}

OgMsgs == Msgs(OgTokens)

OgLogMsgs == Msgs({"connect", "trigger", "sync", "enable_imu", "disable_imu"})

\* program_device(program_data) with n mapped settings; write_characteristic
\* returns False on a failed write and never raises
og_program_device(s, n) ==
    IF ~s.connected THEN Respond(s, OgNotConnected)
    ELSE IF n = 0 THEN Respond(s, "Device programmed successfully")
    ELSE Await([s EXCEPT !.zarg = n], "og_prog_write")

og_guarded(s, stage) ==
    IF ~s.connected THEN Respond(s, OgNotConnected) ELSE Await(s, stage)

og_handle_command(s, m) ==
    LET op == FirstMatch(OgOrder, m.toks)
    IN  CASE op = "connect" -> Await(s, "og_scan")
          [] op = "trigger" -> og_guarded([s EXCEPT !.zarg = 2], "og_trigger_write")
          [] op = "sync" ->
                IF m.arg # "ok" THEN Respond(s, "Command error")
                ELSE IF s.imu_data_buffer # << >>
                THEN Respond([s EXCEPT !.imu_data_buffer = SetLast(@, 10, SyncValue)],
                             OgSyncReply)
                ELSE Respond(s, "No IMU data buffer")
          [] op = "program" -> Respond(s, "Ready for program data")
          [] op = "enable_imu" -> og_guarded(s, "og_enable_readid")
          [] op = "disable_imu" -> og_guarded(s, "og_disable_write")
          [] op = "battery" -> og_guarded(s, "og_bat_read")
          [] op = "uled_check" -> og_guarded(s, "og_uled_read")
          [] op = "status_led" ->
                IF m.arg # "ok" THEN Respond(s, "Command error")
                ELSE IF ~s.connected THEN Respond(s, "Failed")
                ELSE Await(s, "og_led_write")
          [] OTHER -> Respond(s, "Unknown command")

og_run_recv(s, m) == og_handle_command(recv_string(s), m)

og_load_magnetometer_calibration(s, cal) ==
    IF cal = "ok" THEN [s EXCEPT !.mag_calibration = "loaded"] ELSE s

\* the awaited operation ended with outcome o; fs_ok: open() succeeds
og_resume(s, o, fs_ok, cal) ==
    CASE s.zpc = "og_scan" ->
            IF o = "ok" THEN Await([s EXCEPT !.connected = FALSE], "og_conn")
            ELSE IF o = "alt" THEN Respond(s, "Device not found")
            ELSE Respond(s, "Connection failed")
      [] s.zpc = "og_conn" ->
            IF o = "ok" THEN Await([s EXCEPT !.connected = TRUE], "og_notify")
            ELSE Respond(s, "Connection failed")
      [] s.zpc = "og_notify" ->
            Respond(og_load_magnetometer_calibration(s, cal), OgConnectedReply)
      [] s.zpc = "og_trigger_write" ->
            IF s.zarg = 2 THEN Await([s EXCEPT !.zarg = 1], "og_trigger_write")
            ELSE Respond(s, "Trigger sent successfully")
      [] s.zpc = "og_enable_readid" ->
            IF fs_ok
            THEN Await([s EXCEPT !.writer = TRUE, !.files = Append(@, << >>)],
                       "og_enable_write")
            ELSE Respond(s, "Failed to enable IMU")
      [] s.zpc = "og_enable_write" ->
            Respond([s EXCEPT !.imu_enable_state = TRUE], OgEnabledReply)
      [] s.zpc = "og_disable_write" ->
            Respond([s EXCEPT !.writer = FALSE, !.imu_enable_state = FALSE],
                    "IMU disabled")
      [] s.zpc = "og_bat_read" ->
            IF o = "ok"
            THEN Respond([s EXCEPT !.current_battery_voltage = BatteryMv], OgBatteryReply)
            ELSE Respond(s, "Failed to read battery")
      [] s.zpc = "og_uled_read" ->
            Respond(s, IF o = "ok" THEN "uLED Check" ELSE "Failed to read uLED check")
      [] s.zpc = "og_led_write" ->
            Respond(s, IF o = "ok" THEN "Status LED on" ELSE "Failed")
      [] s.zpc = "og_prog_write" ->
            IF s.zarg = 1 THEN Respond(s, "Device programmed successfully")
            ELSE Await([s EXCEPT !.zarg = @ - 1], "og_prog_write")

(* Actions, OptoGridClient *)

OgBackends == {"og", "og_gui"}

ORecv(msgs) ==
    /\ backend \in OgBackends /\ zpc = "poll"
    /\ \E m \in msgs : Set(og_run_recv(St, m))

OAwaitDoneCal(cals) ==
    /\ backend \in OgBackends /\ zpc \notin {"poll", "norun"}
    /\ \E o \in Outcomes(St), f \in FsOutcomes(St), c \in CalOutcomes(St, cals) :
          Set(og_resume(St, o, f, c))

OAwaitDone == OAwaitDoneCal({"missing"})

OImuNotificationOf(max, mags, lens) ==
    /\ backend \in OgBackends /\ connected
    /\ dev_sample < max
    /\ \E mag \in mags, len \in lens :
          Set(og_handle_imu_data_notification([St EXCEPT !.dev_sample = @ + 1],
                                              ImuPayload(dev_sample + 1, mag, len)))

OImuNotification(max) == OImuNotificationOf(max, {QuietMag}, {ImuLen})

ODisconnect ==
    /\ backend \in OgBackends /\ connected
    /\ Set(og_on_disconnect_callback([St EXCEPT !.connected = FALSE]))

(* The magnetometer check, with its history: which sample was last fused    *)
(* with the magnetometer, and how many updates went without it since.       *)

MagSamples == {g * MagUnit : g \in 1..MaxGauss}

WatchMag(n) ==
    IF n.mag_fusion = "9dof"
    THEN [n EXCEPT !.accepted_mag = n.last_mag, !.rejected_run = 0]
    ELSE [n EXCEPT !.rejected_run = Min(@ + 1, 2)]

MagImuNotification ==
    /\ connected /\ dev_sample < MaxMagRecords
    /\ backend = "headless" => LoopFree
    /\ \E mag \in MagSamples :
          LET s == [St EXCEPT !.dev_sample = @ + 1]
              data == ImuPayload(dev_sample + 1, mag, ImuLen)
          IN  Set(WatchMag(IF backend = "headless" THEN handle_imu_data_notification(s, data)
                           ELSE IF backend = "qt" THEN qt_handle_imu_data_notification(s, data)
                           ELSE og_handle_imu_data_notification(s, data)))

(* The trigger input.  gpiozero's Button calls when_pressed on a rising     *)
(* edge; a Button made with bounce_time ignores the edges that follow an    *)
(* edge it has taken by less than bounce_time (0.2 s).                      *)

\* Button(pin, pull_up=False) of setup_gpio_trigger: no bounce_time
setup_gpio_trigger_edge(s) ==
    LET n == gpio_trigger_callback(s)
    IN  [n EXCEPT !.edge_recent =
            IF n.gpio_tasks > s.gpio_tasks THEN "submitted" ELSE "taken"]

\* OptoGridClient.gpio_trigger_callback: submits send_trigger()
og_gpio_trigger_callback(s) ==
    IF s.connected THEN [s EXCEPT !.gpio_tasks = @ + 1] ELSE s

\* Button(self.gpio_pin, pull_up=False, bounce_time=0.2) of __init__
og_button_edge(s) ==
    IF s.edge_recent # "none" THEN s
    ELSE LET n == og_gpio_trigger_callback(s)
         IN  [n EXCEPT !.edge_recent =
                 IF n.gpio_tasks > s.gpio_tasks THEN "submitted" ELSE "taken"]

\* the submitted send_trigger() ran on the client's loop: two writes, no
\* change of the client's fields
og_gpio_send_trigger(s) == [s EXCEPT !.gpio_tasks = @ - 1]

TGpioEdge ==
    /\ backend = "headless" /\ gpio_tasks <= MaxGpioTasks
    /\ Set(setup_gpio_trigger_edge(St))

TOgGpioEdge ==
    /\ backend \in OgBackends /\ gpio_tasks <= MaxGpioTasks
    /\ Set(og_button_edge(St))

\* 200 ms pass without an edge
TElapse ==
    /\ edge_recent # "none"
    /\ Set([St EXCEPT !.edge_recent = "none"])

\* new_main.main: in headless mode asyncio.run(client.run()) runs run(), and
\* every coroutine it awaits, on a loop of its own in the main thread; in GUI
\* mode run() is not started
run_loop(s) == IF s.backend = "og" THEN "asyncio.run" ELSE "none"

\* run_coro_threadsafe: asyncio.run_coroutine_threadsafe(coro, self.loop)
run_coro_threadsafe_loop == "self.loop"

\* the loops on which a device-touching coroutine of the client is under way:
\* the handler awaited by run(), the send_trigger() tasks of the GPIO callback
device_coro_loops(s) ==
    (IF s.zpc \notin {"poll", "norun"} THEN {run_loop(s)} ELSE {})
    \cup (IF s.gpio_tasks > 0 THEN {run_coro_threadsafe_loop} ELSE {})

OGpioTrigger ==
    /\ backend \in OgBackends /\ gpio_tasks > 0
    /\ Set(og_gpio_send_trigger(St))

(* GUI mode of new_main: main() calls client.start(), which binds the REP   *)
(* socket, and then runs the Qt event loop; run() is never called.  The GUI *)
(* submits the client's coroutines with run_coro_threadsafe; each is taken  *)
(* here from its call to its result.                                        *)

\* connect(name): o is "ok", "alt" (device not found / scan failed: the old
\* client is kept) or "err" (the new client fails to connect)
og_gui_connect(s, o) ==
    IF o = "ok" THEN [s EXCEPT !.connected = TRUE]
    ELSE IF o = "err" THEN [s EXCEPT !.connected = FALSE]
    ELSE s

og_gui_enable_imu(s, fs_ok) ==
    IF ~s.connected THEN s
    ELSE IF fs_ok
    THEN [s EXCEPT !.writer = TRUE, !.files = Append(@, << >>),
                   !.imu_enable_state = TRUE]
    ELSE s

og_gui_disable_imu(s) ==
    IF ~s.connected THEN s
    ELSE [s EXCEPT !.writer = FALSE, !.imu_enable_state = FALSE]

GConnect ==
    /\ backend = "og_gui"
    /\ \E o \in {"ok", "alt", "err"} : Set(og_gui_connect(St, o))

GEnableImu ==
    /\ backend = "og_gui"
    /\ \E f \in (IF Len(files) < MaxSessions THEN BOOLEAN ELSE {FALSE}) :
          Set(og_gui_enable_imu(St, f))

GDisableImu ==
    /\ backend = "og_gui"
    /\ Set(og_gui_disable_imu(St))

-----------------------------------------------------------------------------
InitCalls(backends, calls) ==
    /\ backend \in backends
    /\ connected = FALSE
    /\ imu_enable_state = FALSE
    /\ imu_logging_active = FALSE
    /\ writer = FALSE
    /\ imu_data_buffer = << >>
    /\ files = << >>
    /\ imu_counter = 0
    /\ dev_sample = 0
    /\ current_battery_voltage = None
    /\ zpc = IF backend = "qt" THEN "idle"
             ELSE IF backend = "og_gui" THEN "norun" ELSE "poll"
    /\ zarg = 0
    /\ zmq_state = "recv"
    /\ efsm = FALSE
    /\ last_reply = ""
    /\ gpio_tasks = 0
    /\ qpc = "recv"
    /\ expecting_program_data = FALSE
    /\ reply_queue = << >>
    /\ slot = NoSlot
    /\ zreq = "none"
    /\ bat_handler = FALSE
    /\ bat_bar = TRUE
    /\ gui_bat = 0
    /\ win_open = FALSE
    /\ win = << >>
    /\ win_cut = FALSE
    /\ edge_recent = "none"
    /\ mag_calibration = "identity"
    /\ last_mag = 0
    /\ mag_fusion = "none"
    /\ accepted_mag = None
    /\ rejected_run = 0
    /\ codec_call \in calls
    /\ codec_ret = NoRet
    /\ gpio_writes = 0
    /\ op_wait = "none"
    /\ filter_frequency = DefaultRate
    /\ device_rate = 0
    /\ write_failed = FALSE
    /\ req_client = OptoGridIdle

InitOf(backends) == InitCalls(backends, {NoCall})

\* HeadlessOptoGridClient, every request, on a host without GPIO
\* (GPIO_AVAILABLE is False and no trigger button is set up)
Init == InitOf({"headless"})

Next ==
    \/ HRecv(HeadlessMsgs)
    \/ HRecvProgramData
    \/ HAwaitDoneOf({"missing"}, MaxDispatchSessions)
    \/ HImuNotification(MaxDispatchRecords)
    \/ HDisconnect

Spec == Init /\ [][Next]_vars

\* the logging session of each client, on a host with the GPIO trigger
InitLog == InitOf({"headless", "qt", "og"})

NextLog ==
    \/ HRecv(LogMsgs)
    \/ HAwaitDone
    \/ HImuNotification(MaxRecords)
    \/ HDisconnect
    \/ HGpioEdge
    \/ HGpioTrigger
    \/ QRecv(LogMsgs)
    \/ QGet
    \/ QSlot
    \/ QTaskDone
    \/ QGuiBatteryDone
    \/ QImuNotification(MaxRecords)
    \/ QDisconnect
    \/ ORecv(OgLogMsgs)
    \/ OAwaitDone
    \/ OImuNotification(MaxRecords)
    \/ ODisconnect

SpecLog == InitLog /\ [][NextLog]_vars

\* one HeadlessOptoGridClient session as its REQ peer sees it
WinTokens == {"optogrid.connect", "optogrid.enableIMU", "optogrid.disableIMU"}

WinMsgs == Msgs(WinTokens)

InitWin == InitOf({"headless"})

NextWin ==
    \/ WRecv(WinMsgs)
    \/ WAwaitDone
    \/ WImuNotification(MaxRecords)
    \/ WDisconnect

SpecWin == InitWin /\ [][NextWin]_vars

\* HeadlessOptoGridClient with a long stream of records during the first
\* session; later sessions are opened and closed without records
FlushMsgs == Msgs({"optogrid.connect", "optogrid.enableIMU", "optogrid.disableIMU"})

InitFlush == InitOf({"headless"})

FImuNotification ==
    /\ imu_logging_active /\ Len(files) = 1
    /\ HImuNotification(MaxFlushRecords)

NextFlush ==
    \/ HRecv(FlushMsgs)
    \/ HAwaitDone
    \/ FImuNotification

SpecFlush == InitFlush /\ [][NextFlush]_vars

\* the Qt client, every request
InitQt == InitOf({"qt"})

NextQt ==
    \/ QRecv(QtMsgs)
    \/ QRecvProgramData
    \/ QGet
    \/ QSlot
    \/ QTaskDone
    \/ QGuiReadBattery
    \/ QGuiBatteryDone
    \/ QImuNotification(MaxDispatchRecords)
    \/ QDisconnect

SpecQt == InitQt /\ [][NextQt]_vars

\* the three clients, connected to a device whose field changes
InitMag == InitOf({"headless", "og", "qt"})

NextMag ==
    \/ HRecv(Msgs({"optogrid.connect"}))
    \/ HAwaitDone
    \/ HDisconnect
    \/ ORecv(Msgs({"connect"}))
    \/ OAwaitDone
    \/ ODisconnect
    \/ QRecv(Msgs({"optogrid.connect"}))
    \/ QGet
    \/ QSlot
    \/ QTaskDone
    \/ QDisconnect
    \/ MagImuNotification

SpecMag == InitMag /\ [][NextMag]_vars

\* HeadlessOptoGridClient and OptoGridClient, connected to a device whose
\* IMU payloads are cut short, whole, or longer than a record
PayloadLens == {0, 3, ImuLen - 1} \cup ImuLen..MaxImuLen

InitLen == InitOf({"headless", "og"})

NextLen ==
    \/ HRecv(Msgs({"optogrid.connect", "optogrid.enableIMU"}))
    \/ HAwaitDone
    \/ HDisconnect
    \/ HImuNotificationOf(MaxRecords, {QuietMag}, PayloadLens)
    \/ ORecv(Msgs({"connect", "enable_imu"}))
    \/ OAwaitDone
    \/ ODisconnect
    \/ OImuNotificationOf(MaxRecords, {QuietMag}, PayloadLens)

SpecLen == InitLen /\ [][NextLen]_vars

\* decode_value and encode_value, called once on any value of a small set
SeqsUpTo(S, n) == UNION {[1..k -> S] : k \in 0..n}

\* 0x00, 0x01, 'A' and 0xff
ByteVals == {0, 1, 65, 255}

\* '2', '9', '-', ' ' and 'x'
TextChars == {50, 57, 45, 32, 120}

\* 'true', 'True', 'yes', 'no', 'false', 'maybe'
Words ==
    { << 116, 114, 117, 101 >>, << 84, 114, 117, 101 >>, << 121, 101, 115 >>,
      << 110, 111 >>, << 102, 97, 108, 115, 101 >>, << 109, 97, 121, 98, 101 >> }

DecodeCalls ==
    [fn : {"decode_value"}, type_str : Known \cup {"hex"},
     arg : SeqsUpTo(ByteVals, MaxBytes)
           \cup {ImuPayload(1, QuietMag, len) : len \in PayloadLens}]

EncodeCalls ==
    [fn : {"encode_value"},
     type_str : {"string", "uint8", "uint16", "uint32", "uint64", "bool", "hex"},
     arg : SeqsUpTo(TextChars, MaxText) \cup Words \cup {<< 49 >>, << 48 >>}]

\* '0', '1', '2', '5' and '9'
DigitChars == {48, 49, 50, 53, 57}

\* str(n) for some n: digits, no leading zero
DecimalTexts ==
    {t \in SeqsUpTo(DigitChars, MaxText) : t # << >> /\ (Len(t) > 1 => t[1] # 48)}

\* 255, 65535, 4294967295 and 18446744073709551615
MaxOf(type_str) == Decimal([i \in 1..Width(type_str) |-> 255])

\* the values of a characteristic of a type, as decode_value writes them:
\* numbers of the type's range, 'True' and 'False', texts of 'A', 'B' and NUL
ValuesOf(type_str) ==
    IF type_str = "bool" THEN {<< 84, 114, 117, 101 >>, << 70, 97, 108, 115, 101 >>}
    ELSE IF type_str = "string" THEN SeqsUpTo({65, 66, 0}, MaxText)
    ELSE {t \in DecimalTexts : Fits(t, Width(type_str))} \cup {MaxOf(type_str)}

RoundTripCalls ==
    UNION {[fn : {"decode_value(encode_value)"}, type_str : {ty}, arg : ValuesOf(ty)] :
              ty \in {"string", "bool", "uint8", "uint16", "uint32", "uint64"}}

InitCodec == InitCalls({"headless"}, DecodeCalls \cup EncodeCalls \cup RoundTripCalls)

\* the text of a str that decode_value returned
TextOf(str) ==
    IF str.kind = "True" THEN << 84, 114, 117, 101 >>
    ELSE IF str.kind = "False" THEN << 70, 97, 108, 115, 101 >>
    ELSE str.val

CallDecode ==
    /\ codec_call.fn = "decode_value" /\ codec_ret = NoRet
    /\ LET str == decode_value(codec_call.type_str, codec_call.arg)
       IN  Set([St EXCEPT !.codec_ret =
                   [raised |-> FALSE, kind |-> str.kind, val |-> str.val, of |-> ""]])

CallEncode ==
    /\ codec_call.fn = "encode_value" /\ codec_ret = NoRet
    /\ Set([St EXCEPT !.codec_ret = encode_value(codec_call.type_str, codec_call.arg)])

\* decode_value(uuid, encode_value(uuid, v))
CallRoundTrip ==
    /\ codec_call.fn = "decode_value(encode_value)" /\ codec_ret = NoRet
    /\ LET bytes == encode_value(codec_call.type_str, codec_call.arg)
           str == decode_value(codec_call.type_str, bytes.val)
       IN  Set([St EXCEPT !.codec_ret =
                   IF bytes.raised THEN bytes
                   ELSE [raised |-> FALSE, kind |-> str.kind, val |-> TextOf(str),
                         of |-> ""]])

NextCodec ==
    \/ CallDecode
    \/ CallEncode
    \/ CallRoundTrip

SpecCodec == InitCodec /\ [][NextCodec]_vars

\* the yaw smoothing, applied once to any previous and raw yaw of a small set
YawAngles == {0, 1, 2, 3, 89, 90, 91, 178, 179, 180, 181, 182, 270, 357, 358, 359}

YawCalls ==
    [fn : {"smooth_yaw"}, type_str : {""},
     arg : {<< last_yaw, yaw, a >> :
               last_yaw \in YawAngles, yaw \in YawAngles, a \in 0..AlphaDen}]

InitYaw == InitCalls({"headless", "og"}, YawCalls)

\* the call returns delta_yaw and smooth_yaw
CallSmoothYaw ==
    /\ codec_call.fn = "smooth_yaw" /\ codec_ret = NoRet
    /\ LET last_yaw == codec_call.arg[1]
           yaw == codec_call.arg[2]
           a == codec_call.arg[3]
       IN  Set([St EXCEPT !.codec_ret =
                   [raised |-> FALSE, kind |-> "yaw",
                    val |-> << delta_yaw(last_yaw, yaw), smooth_yaw(last_yaw, yaw, a) >>,
                    of |-> ""]])

NextYaw == CallSmoothYaw

SpecYaw == InitYaw /\ [][NextYaw]_vars

\* the continuity analysis of one sample column
SampleVals == {1, 2, 3, 6, 7}

SampleColumns == UNION {[1..n -> SampleVals] : n \in 0..MaxSamples}

GapCalls == [fn : {"sample_continuity"}, type_str : {""}, arg : SampleColumns]

InitGap == InitCalls({"headless"}, GapCalls)

\* the analysis returns the gap positions, their number and the missing samples
CallSampleContinuity ==
    /\ codec_call.fn = "sample_continuity" /\ codec_ret = NoRet
    /\ LET sample_diff == diff(codec_call.arg)
       IN  Set([St EXCEPT !.codec_ret =
                   [raised |-> FALSE, kind |-> "gaps",
                    val |-> << missing_samples(sample_diff), missing_count(sample_diff),
                               IF missing_count(sample_diff) > 0
                               THEN total_missing(sample_diff) ELSE 0 >>,
                    of |-> ""]])

NextGap == CallSampleContinuity

SpecGap == InitGap /\ [][NextGap]_vars

\* HeadlessOptoGridClient, messages with one or two opcode tokens
InitPair == InitOf({"headless"})

NextPair ==
    \/ HRecv(HeadlessMsgs \cup HeadlessPairMsgs)
    \/ HRecvProgramData
    \/ HAwaitDone
    \/ HDisconnect

SpecPair == InitPair /\ [][NextPair]_vars

\* the trigger input of HeadlessOptoGridClient and of OptoGridClient on a host
\* with GPIO, with the time between edges
InitGpio == InitOf({"headless", "og"})

NextGpio ==
    \/ HRecv(Msgs({"optogrid.connect"}))
    \/ HAwaitDone
    \/ HDisconnect
    \/ HGpioTrigger
    \/ TGpioEdge
    \/ ORecv(Msgs({"connect"}))
    \/ OAwaitDone
    \/ ODisconnect
    \/ OGpioTrigger
    \/ TOgGpioEdge
    \/ TElapse

SpecGpio == InitGpio /\ [][NextGpio]_vars

\* connecting to devices with and without a calibration file
CalFiles == {"missing", "nocols", "ok"}

InitCal == InitOf({"headless", "og"})

NextCal ==
    \/ HRecv(Msgs({"optogrid.connect", "optogrid.status"}))
    \/ HAwaitDoneCal(CalFiles)
    \/ HImuNotification(MaxDispatchRecords)
    \/ HDisconnect
    \/ ORecv(Msgs({"connect", "battery"}))
    \/ OAwaitDoneCal(CalFiles)
    \/ OImuNotification(MaxDispatchRecords)
    \/ ODisconnect

SpecCal == InitCal /\ [][NextCal]_vars

\* OptoGridClient as new_main runs it, in headless mode and in GUI mode,
\* every request
InitOG == InitOf(OgBackends)

NextOG ==
    \/ ORecv(OgMsgs)
    \/ OAwaitDone
    \/ OImuNotification(MaxDispatchRecords)
    \/ ODisconnect
    \/ GConnect
    \/ GEnableImu
    \/ GDisableImu

SpecOG == InitOG /\ [][NextOG]_vars

\* the requests with a documented success reply, to both ZMQ dispatchers
ReplyTokens ==
    {"optogrid.connect", "optogrid.trigger", "optogrid.enableIMU",
     "optogrid.disableIMU", "optogrid.sync", "optogrid.program",
     "optogrid.readbattery"}

OgReplyTokens ==
    {"connect", "trigger", "enable_imu", "disable_imu", "sync", "program", "battery"}

InitReply == InitOf({"headless", "og"})

NextReply ==
    \/ HRecv(Msgs(ReplyTokens))
    \/ HRecvProgramData
    \/ HAwaitDoneOf({"missing"}, MaxDispatchSessions)
    \/ HImuNotification(MaxDispatchRecords)
    \/ ORecv(Msgs(OgReplyTokens))
    \/ OAwaitDone
    \/ OImuNotification(MaxDispatchRecords)

SpecReply == InitReply /\ [][NextReply]_vars

\* HeadlessOptoGridClient, sessions started and stopped by its REQ peer, with
\* every call of stop_IMU_logging() by disable_imu recorded
InitStop == InitOf({"headless"})

NextStop ==
    \/ HRecv(WinMsgs)
    \/ (zpc # "disable_write" /\ HAwaitDone)
    \/ HDisableStop
    \/ HImuNotification(MaxRecords)
    \/ HDisconnect

SpecStop == InitStop /\ [][NextStop]_vars

\* HeadlessOptoGridClient on a host with the GPIO trigger: requests of a REQ
\* peer and trigger tasks of the GPIO thread, each device write with its await
GattTokens ==
    {"optogrid.connect", "optogrid.trigger", "optogrid.readbattery", "optogrid.sync"}

InitGatt == InitOf({"headless"})

NextGatt ==
    \/ HRecv(Msgs(GattTokens))
    \/ HAwaitDone
    \/ HImuNotification(MaxDispatchRecords)
    \/ HDisconnect
    \/ HGpioEdge
    \/ HGpioWriteStart
    \/ HGpioWriteDone

SpecGatt == InitGatt /\ [][NextGatt]_vars

\* connect and trigger requests to HeadlessOptoGridClient and to the Qt
\* client, with device operations that may never complete.  Every thread and
\* the loop keep running: a step that can be taken is taken.
HangTokens == {"optogrid.connect", "optogrid.trigger"}

InitHang == InitOf({"headless", "qt"})

NextHang ==
    \/ HRecv(Msgs(HangTokens))
    \/ (op_wait = "none" /\ HAwaitDone)
    \/ HOperationHangs
    \/ QRecv(Msgs(HangTokens))
    \/ QSlot
    \/ (op_wait = "none" /\ QTaskDone)
    \/ QGuiBatteryDone
    \/ QGet
    \/ QOperationHangs
    \/ QWorkerTimeout

SpecHang == InitHang /\ [][NextHang]_vars /\ WF_vars(NextHang)

\* OptoGridClient in both modes of new_main, with requests of a REQ peer,
\* edges on the trigger pin and actions of the GUI
InitLoop == InitOf(OgBackends)

NextLoop ==
    \/ ORecv(Msgs({"connect", "trigger", "battery"}))
    \/ OAwaitDone
    \/ OImuNotification(MaxDispatchRecords)
    \/ ODisconnect
    \/ TOgGpioEdge
    \/ OGpioTrigger
    \/ TElapse
    \/ GConnect
    \/ GEnableImu
    \/ GDisableImu

SpecLoop == InitLoop /\ [][NextLoop]_vars

\* update_imu_filter_frequency: rate is the device's IMU sample rate, o the
\* outcome of reading it; the filter is rebuilt only for a rate above 0
update_imu_filter_frequency(s, rate, o) ==
    IF o = "ok" /\ rate > 0 THEN [s EXCEPT !.filter_frequency = rate] ELSE s

\* the devices' IMU sample rates (0: the characteristic reads as 0)
Rates == {0, 50, DefaultRate}

\* connect_device, setup_notifications: the notifications are started and the
\* sample rate of the device (rate) is read for the filter, with outcome o
HConnectNotified ==
    /\ backend = "headless" /\ zpc = "connect_notify"
    /\ \/ Set(resume(St, "err", TRUE, "missing"))
       \/ \E rate \in Rates, o \in {"ok", "err"} :
             Set([update_imu_filter_frequency(resume(St, "ok", TRUE, "missing"), rate, o)
                     EXCEPT !.device_rate = rate])

\* the same step of OptoGridClient.connect
OConnectNotified ==
    /\ backend = "og" /\ zpc = "og_notify"
    /\ \/ Set(og_resume(St, "err", TRUE, "missing"))
       \/ \E rate \in Rates, o \in {"ok", "err"} :
             Set([update_imu_filter_frequency(og_resume(St, "ok", TRUE, "missing"), rate, o)
                     EXCEPT !.device_rate = rate])

\* connecting to devices of several IMU sample rates
InitRate == InitOf({"headless", "og"})

NextRate ==
    \/ HRecv(Msgs({"optogrid.connect", "optogrid.status"}))
    \/ (zpc # "connect_notify" /\ HAwaitDone)
    \/ HConnectNotified
    \/ HDisconnect
    \/ ORecv(Msgs({"connect", "battery"}))
    \/ (zpc # "og_notify" /\ OAwaitDone)
    \/ OConnectNotified
    \/ ODisconnect

SpecRate == InitRate /\ [][NextRate]_vars

\* process_imu_orientation: the vectors handed to fusion_filter.update.  A
\* vector is kept in the sensor's counts: the unit factors (32 / 65536 g and
\* 9.80665 m/s2, 4000 / 65536 dps and radians) are the same positive
\* factors in both branches.
gyro_noise_threshold == 5

\* acc_world, gyr_world before the noise gate
remap(b, v) ==
    IF b = "qt" THEN << 0 - v[3], 0 - v[1], v[2] >>
    ELSE << v[1], 0 - v[2], 0 - v[3] >>

\* np.where(np.abs(gyr_world) < gyro_noise_threshold, 0, gyr_world), gyr_world in dps
gyro_gate(v) ==
    [i \in 1..3 |-> IF Abs(v[i]) * 4000 < gyro_noise_threshold * 65536 THEN 0 ELSE v[i]]

\* the keyword arguments of the update call of either branch
fusion_update_args(b, acc, gyr, is_mag_valid) ==
    LET acc_world == remap(b, acc)
        gyr_world == gyro_gate(remap(b, gyr))
    IN  IF is_mag_valid
        THEN [acc |-> acc_world, gyr |-> gyr_world, mag |-> TRUE]
        ELSE [acc |-> IF b = "og" THEN acc_world ELSE acc,
              gyr |-> gyr_world, mag |-> FALSE]

\* one record, fused once on each branch
AccVals == {-1, 0, 2}

GyrVecs == {<< 0, 0, 0 >>, << 81, -82, 100 >>}

FusionCalls ==
    [fn : {"process_imu_orientation"}, type_str : {""},
     arg : {<< acc, gyr >> : acc \in [1..3 -> AccVals], gyr \in GyrVecs}]

InitFusion == InitCalls({"headless", "og", "qt"}, FusionCalls)

\* the call returns what the 6-DOF and the 9-DOF branch pass to the filter
CallFusion ==
    /\ codec_call.fn = "process_imu_orientation" /\ codec_ret = NoRet
    /\ LET acc == codec_call.arg[1]
           gyr == codec_call.arg[2]
       IN  Set([St EXCEPT !.codec_ret =
                   [raised |-> FALSE, kind |-> "fusion",
                    val |-> << fusion_update_args(backend, acc, gyr, FALSE),
                               fusion_update_args(backend, acc, gyr, TRUE) >>,
                    of |-> ""]])

NextFusion == CallFusion

SpecFusion == InitFusion /\ [][NextFusion]_vars

-----------------------------------------------------------------------------
\* trigger and program requests, with the history of their writes
WriteStages == {"trigger_write", "prog_write", "og_trigger_write", "og_prog_write"}

\* n follows s by the end, with outcome o, of the operation s awaits
WatchWrite(s, o, n) ==
    IF s.zpc \in WriteStages /\ o # "ok" THEN [n EXCEPT !.write_failed = TRUE] ELSE n

HRecvWrite ==
    /\ backend = "headless" /\ zpc = "poll"
    /\ \E m \in Msgs({"optogrid.connect", "optogrid.trigger", "optogrid.program"}) :
          Set([run_recv(St, m) EXCEPT !.write_failed = FALSE])

HWriteDone ==
    /\ backend = "headless" /\ zpc \notin {"poll", "prog_recv"}
    /\ \E o \in Outcomes(St) : Set(WatchWrite(St, o, resume(St, o, TRUE, "missing")))

ORecvWrite ==
    /\ backend = "og" /\ zpc = "poll"
    /\ \E m \in Msgs({"connect", "trigger"}) :
          Set([og_run_recv(St, m) EXCEPT !.write_failed = FALSE])

OWriteDone ==
    /\ backend = "og" /\ zpc # "poll"
    /\ \E o \in Outcomes(St) : Set(WatchWrite(St, o, og_resume(St, o, TRUE, "missing")))

InitWrite == InitOf({"headless", "og"})

NextWrite ==
    \/ HRecvWrite
    \/ HRecvProgramData
    \/ HWriteDone
    \/ HDisconnect
    \/ ORecvWrite
    \/ OWriteDone
    \/ ODisconnect
    \/ HImuNotification(MaxDispatchRecords)
    \/ OImuNotification(MaxDispatchRecords)

SpecWrite == InitWrite /\ [][NextWrite]_vars

\* HeadlessOptoGridClient until its shutdown.  signal_handler clears
\* self.running, run() leaves its loop at the next test and awaits cleanup()
cleanup(s) ==
    LET s1 == IF s.imu_logging_active THEN stop_IMU_logging(flush_imu_buffer(s)) ELSE s
    IN  IF s1.connected THEN Await(s1, "cleanup_disc")
        ELSE [s1 EXCEPT !.zpc = "stopped"]

\* cleanup's await self.client.disconnect() ended; an error is logged
cleanup_resume(s, o) ==
    IF o = "ok" /\ s.connected
    THEN [on_disconnect_callback([s EXCEPT !.connected = FALSE]) EXCEPT !.zpc = "stopped"]
    ELSE [s EXCEPT !.zpc = "stopped"]

HSignal ==
    /\ backend = "headless" /\ zpc = "poll"
    /\ Set(cleanup(St))

HCleanupDone ==
    /\ backend = "headless" /\ zpc = "cleanup_disc"
    /\ \E o \in {"ok", "err"} : Set(cleanup_resume(St, o))

InitEnd == InitOf({"headless"})

NextEnd ==
    \/ HRecv(Msgs({"optogrid.connect", "optogrid.enableIMU", "optogrid.disableIMU"}))
    \/ (zpc \notin {"cleanup_disc", "stopped"} /\ HAwaitDone)
    \/ (zpc # "stopped" /\ HImuNotification(MaxDispatchRecords))
    \/ (zpc # "stopped" /\ HDisconnect)
    \/ HSignal
    \/ HCleanupDone

SpecEnd == InitEnd /\ [][NextEnd]_vars

\* HeadlessOptoGridClient, sessions during which the battery is read
MaxBatRecords == 3

InitBat == InitOf({"headless"})

NextBat ==
    \/ HRecv(Msgs({"optogrid.connect", "optogrid.enableIMU", "optogrid.disableIMU",
                   "optogrid.readbattery"}))
    \/ HAwaitDone
    \/ HImuNotification(MaxBatRecords)
    \/ HDisconnect

SpecBat == InitBat /\ [][NextBat]_vars

\* HeadlessOptoGridClient, triggers from the REQ peer and from the GPIO pin
\* during a session; the outcome of a GPIO trigger's write is recorded
HGpioTriggerDone ==
    /\ backend = "headless" /\ gpio_tasks > 0 /\ LoopFree
    /\ \E o \in (IF connected THEN {"ok", "err"} ELSE {"err"}) :
          Set([do_send_trigger(St, o) EXCEPT
                  !.codec_call = [fn |-> "do_send_trigger", type_str |-> o, arg |-> << >>]])

InitTrig == InitOf({"headless"})

NextTrig ==
    \/ HRecv(Msgs({"optogrid.connect", "optogrid.enableIMU", "optogrid.trigger"}))
    \/ HAwaitDone
    \/ HImuNotification(MaxRecords)
    \/ HDisconnect
    \/ HGpioEdge
    \/ HGpioTriggerDone

SpecTrig == InitTrig /\ [][NextTrig]_vars

\* HeadlessOptoGridClient programmed during a session, on a host with the
\* GPIO trigger
InitProg == InitOf({"headless"})

NextProg ==
    \/ HRecv(Msgs({"optogrid.connect", "optogrid.enableIMU", "optogrid.program"}))
    \/ HRecvProgramData
    \/ HAwaitDone
    \/ HImuNotification(MaxRecords)
    \/ HDisconnect
    \/ HGpioEdge
    \/ HGpioTrigger

SpecProg == InitProg /\ [][NextProg]_vars

\* HeadlessOptoGridClient, the requests that need a device; the message
\* that run() received last is recorded
GuardedTokens ==
    {"optogrid.trigger", "optogrid.enableIMU", "optogrid.startIMULog",
     "optogrid.disableIMU", "optogrid.stopIMULog", "optogrid.readbattery",
     "optogrid.toggleStatusLED", "optogrid.toggleShamLED"}

HRecvGuarded ==
    /\ backend = "headless" /\ zpc = "poll"
    /\ \E m \in Msgs(GuardedTokens \cup {"optogrid.program", "optogrid.connect"}) :
          Set([run_recv(St, m) EXCEPT
                  !.codec_call = [fn |-> "handle_command", type_str |-> "", arg |-> m]])

InitFrame == InitOf({"headless"})

NextFrame ==
    \/ HRecvGuarded
    \/ HRecvProgramData
    \/ HAwaitDone
    \/ HImuNotification(MaxDispatchRecords)
    \/ HDisconnect

SpecFrame == InitFrame /\ [][NextFrame]_vars

\* The client library (deprecated/python-optogrid): OptoGrid.connect() against
\* HeadlessOptoGridClient.  req_client.pc is the position in connect(): "idle"
\* (not called), "send", "recv", "returned"; req is the REQ socket's state:
\* "ready" (may send) or "awaiting" (a request is out, only recv is allowed);
\* wire is the request's fate: "request" (sent, not yet received by run()),
\* "serving" (received), "none".
MaxAttempts == 3
MaxLibCalls == 2

\* for attempt in range(3): the next iteration, or the return after the last
lib_continue(c) ==
    IF c.attempt < MaxAttempts THEN [c EXCEPT !.attempt = @ + 1, !.pc = "send"]
    ELSE [c EXCEPT !.pc = "returned"]

\* socket.send_string(...) of an attempt.  A REQ socket that still awaits a
\* reply refuses to send (zmq.ZMQError, EFSM): except Exception: continue
lib_connect_send(c) ==
    IF c.req = "ready"
    THEN [c EXCEPT !.req = "awaiting", !.wire = "request", !.sent = @ + 1, !.pc = "recv"]
    ELSE lib_continue([c EXCEPT !.raised = @ + 1])

\* socket.recv_string() returned reply
lib_connect_reply(c, reply) ==
    LET c1 == [c EXCEPT !.req = "ready", !.wire = "none"]
    IN  IF Contains(DeviceName \o " Connected", reply)
        THEN [c1 EXCEPT !.got = TRUE, !.ret = TRUE, !.pc = "returned"]
        ELSE lib_continue(c1)

\* socket.recv_string() raised zmq.Again after RCVTIMEO: the socket goes on
\* awaiting the reply
lib_connect_timeout(c) == lib_continue([c EXCEPT !.timeouts = @ + 1])

LCall ==
    /\ req_client.pc \in {"idle", "returned"} /\ req_client.calls < MaxLibCalls
    /\ Set([St EXCEPT !.req_client =
               [@ EXCEPT !.pc = "send", !.attempt = 1, !.sent = 0, !.raised = 0,
                         !.timeouts = 0, !.got = FALSE, !.ret = FALSE,
                         !.calls = @ + 1]])

LSend ==
    /\ req_client.pc = "send"
    /\ Set([St EXCEPT !.req_client = lib_connect_send(@)])

\* run() receives the library's request
HRecvLib ==
    /\ backend = "headless" /\ zpc = "poll" /\ req_client.wire = "request"
    /\ Set([run_recv(St, [toks |-> {"optogrid.connect"}, arg |-> "name"])
               EXCEPT !.req_client.wire = "serving"])

\* the reply that run() sent reaches the library within the timeout
LRecvReply ==
    /\ req_client.pc = "recv" /\ req_client.wire = "serving" /\ zpc = "poll"
    /\ Set([St EXCEPT !.req_client = lib_connect_reply(@, last_reply)])

\* the server has not replied 10 s after the request
LRecvTimeout ==
    /\ req_client.pc = "recv"
    /\ req_client.wire = "request" \/ zpc # "poll"
    /\ Set([St EXCEPT !.req_client = lib_connect_timeout(@)])

InitLib == InitOf({"headless"})

NextLib ==
    \/ LCall
    \/ LSend
    \/ HRecvLib
    \/ HAwaitDone
    \/ LRecvReply
    \/ LRecvTimeout
    \/ HDisconnect

SpecLib == InitLib /\ [][NextLib]_vars

(* Claims *)

\* C1: HeadlessOptoGridClient.run answers every message it receives with
\* exactly one reply before it receives the next one: no socket call is made
\* in the wrong REP state, the loop polls only when no reply is owed, a
\* handler that is under way owes exactly the reply of its message and can
\* always take its next step (with at most zarg further device writes before
\* the reply), and the 'program' message is answered by 'Ready for program
\* data' before the payload is received.
C1_OneReplyPerMessage ==
    /\ ~efsm
    /\ zpc = "poll" => zmq_state = "recv"
    /\ zpc = "prog_recv" =>
            zmq_state = "recv" /\ last_reply = "Ready for program data"
    /\ zpc \notin {"poll", "prog_recv"} =>
            /\ zmq_state = "send" /\ last_reply = ""
            /\ ENABLED HAwaitDone
            /\ zpc = "prog_write" => zarg \in 1..MaxSettings

\* the payload of a program request was answered after its device writes
C1_Witness ==
    /\ backend = "headless" /\ zpc = "poll" /\ zmq_state = "recv"
    /\ last_reply = "Opto Programmed" /\ connected

\* the sample column of a list of rows
Samples(rows) == [i \in 1..Len(rows) |-> rows[i].sample]

\* the list w occurs in the list f as one run, and each of its elements
\* occurs in f once
InOrderOnce(w, f) ==
    /\ \E k \in 0..(Len(f) - Len(w)) : \A i \in 1..Len(w) : f[k + i] = w[i]
    /\ \A i \in 1..Len(w) : Cardinality({j \in 1..Len(f) : f[j] = w[i]}) = 1

C2_QtEveryRequestAnswered ==
    (backend = "qt" /\ zmq_state = "send") =>
        /\ qpc = "get"
        /\ \/ reply_queue # << >>
           \/ slot # NoSlot
           \/ zpc # "idle"
           \/ (gui_bat > 0 /\ bat_handler)

\* C3: in the Qt client the message after 'Ready for program data' is taken
\* as the payload and gets exactly one final reply: while the payload's reply
\* is owed, it is queued or the program request is still being handled.
C3_QtPayloadAnswered ==
    (backend = "qt" /\ zreq = "payload" /\ zmq_state = "send") =>
        /\ qpc = "get"
        /\ \/ reply_queue # << >>
           \/ slot # NoSlot
           \/ zpc = "q_prog_write"

IsSuffix(b, f) ==
    /\ Len(b) <= Len(f)
    /\ \A i \in 1..Len(b) : f[Len(f) - Len(b) + i] = b[i]

LastFile(fs) == Flatten(fs[Len(fs)])

DisconnectStep == HDisconnect \/ QDisconnect \/ ODisconnect

\* C5: when the device disconnects while a session is open, the disconnect
\* callback leaves the writer closed and the buffer empty, and every row that
\* was in the buffer is at the end of the session file, which gains no other
\* row; this in each of the three backends.
C5_DisconnectFlushes ==
    [][(DisconnectStep /\ writer) =>
            /\ ~writer' /\ imu_data_buffer' = << >>
            /\ Len(files') = Len(files)
            /\ IsSuffix(imu_data_buffer, LastFile(files'))
            /\ \/ LastFile(files') = LastFile(files)
               \/ LastFile(files') = LastFile(files) \o imu_data_buffer]_vars

SyncAcknowledged ==
    \/ HRecv(LogMsgs) /\ last_reply' = "Sync Written"
    \/ ORecv(OgLogMsgs) /\ last_reply' = OgSyncReply
    \/ /\ QSlot /\ Len(reply_queue') > Len(reply_queue)
       /\ reply_queue'[Len(reply_queue')] = "Sync Written"

C7_SyncInLastRow ==
    [][SyncAcknowledged =>
            /\ imu_data_buffer # << >>
            /\ imu_data_buffer' = SetLast(imu_data_buffer, 10, SyncValue)
            /\ writer => ~IsSuffix(<< imu_data_buffer[Len(imu_data_buffer)] >>,
                                   LastFile(files'))]_vars

\* C8: in the Qt client reply_queue holds a reply only while a request is
\* waiting for one.
C8_NoReplyWithoutRequest ==
    (backend = "qt" /\ qpc = "recv") => reply_queue = << >>

\* C9: when 'IMU enabled, and logging started' is sent, a session file is
\* open and the logging-enabled flag is set (headless and Qt).
C9_EnabledReplyMeansLogging ==
    [][(zmq_state = "send" /\ zmq_state' = "recv" /\ last_reply' = EnabledReply) =>
            /\ writer' /\ imu_enable_state'
            /\ backend = "headless" => imu_logging_active']_vars

\* C10: in the Qt client, when logging is turned off the rows still in the
\* buffer are written to the session file before it is closed and the buffer
\* is left empty.
C10_QtDisableFlushes ==
    [][(QSlot /\ writer /\ ~writer') =>
            /\ imu_data_buffer' = << >>
            /\ LastFile(files') = LastFile(files) \o imu_data_buffer]_vars

\* C11: in OptoGridClient the message received after a 'program' request was
\* answered with 'Ready for program data' is taken as the settings payload:
\* it is handed to program_device, which applies it and gives the final reply.
C11_OgPayloadProgrammed ==
    [][(ORecv(OgMsgs) /\ last_reply = "Ready for program data") =>
            \E n \in 0..MaxSettings : Set(og_program_device(recv_string(St), n))]_vars

\* C12: a request sent to the REP socket that client.start() bound gets a
\* reply, in GUI mode as in headless mode: the client is either ready to
\* receive the request or handling one whose next step it can take.
C12_GuiRequestAnswered ==
    backend \in OgBackends => (ENABLED ORecv(OgMsgs) \/ ENABLED OAwaitDone)

\* the precedence list as documented; enableIMU/startIMULog and
\* disableIMU/stopIMULog are listed as one entry each
C13_DocumentedOrder ==
    << "optogrid.connect", "optogrid.trigger", "optogrid.scan", "optogrid.status",
       "optogrid.gattread", "optogrid.enableIMU", "optogrid.startIMULog",
       "optogrid.disableIMU", "optogrid.stopIMULog", "optogrid.readbattery",
       "optogrid.readuLEDCheck", "optogrid.readlastStim", "optogrid.sync",
       "optogrid.toggleStatusLED", "optogrid.toggleShamLED", "optogrid.program" >>

C13_SameEntry(toks) ==
    \/ toks = {"optogrid.enableIMU", "optogrid.startIMULog"}
    \/ toks = {"optogrid.disableIMU", "optogrid.stopIMULog"}

\* C13: HeadlessOptoGridClient.handle_command treats a message that holds two
\* opcode tokens as the message that holds only the one listed first in the
\* documented precedence order: same action, same reply, same state.
C13_DocumentedPrecedence ==
    (backend = "headless" /\ zpc = "poll") =>
        \A m \in HeadlessPairMsgs :
            C13_SameEntry(m.toks) \/
            run_recv(St, m) =
                run_recv(St, [toks |-> {FirstMatch(C13_DocumentedOrder, m.toks)},
                              arg |-> m.arg])

\* requests whose '= value' part is missing or does not parse
C14_Malformed ==
    {m \in HeadlessMsgs :
        \/ m.toks = {"optogrid.connect"} /\ m.arg = "none"
        \/ /\ m.toks \subseteq {"optogrid.sync", "optogrid.startIMULog",
                                "optogrid.toggleStatusLED", "optogrid.toggleShamLED"}
           /\ m.toks # {}
           /\ m.arg \in {"none", "bad"}}

C14_ErrorReplies ==
    {"ERROR: list index out of range", "ERROR: invalid sync value",
     "ERROR: Invalid startIMULog parameters",
     "ERROR: Invalid value for toggleStatusLED",
     "ERROR: Invalid value for toggleShamLED", "ERROR: invalid program data"}

\* the reply is an 'ERROR: ' text, sent at once (no device operation is
\* awaited), the loop is back at its poll, and connection, session and buffer
\* are as before
C14_Rejected(n) ==
    /\ n.last_reply \in C14_ErrorReplies
    /\ n.zpc = "poll" /\ n.zmq_state = "recv" /\ ~n.efsm
    /\ n.connected = connected
    /\ n.writer = writer /\ n.imu_logging_active = imu_logging_active
    /\ n.imu_enable_state = imu_enable_state
    /\ n.files = files /\ n.imu_data_buffer = imu_data_buffer

\* C14: in HeadlessOptoGridClient a connect, sync, startIMULog,
\* toggleStatusLED or toggleShamLED request with a missing or unparsable value,
\* and a program payload that cannot be evaluated, is answered with an
\* 'ERROR: ' reply without any device operation and without a change of the
\* connection, the session or the row buffer, and the loop serves the next
\* request.
C14_MalformedRejected ==
    /\ (backend = "headless" /\ zpc = "poll") =>
            \A m \in C14_Malformed : C14_Rejected(run_recv(St, m))
    /\ (backend = "headless" /\ zpc = "prog_recv") =>
            \A k \in 0..MaxSettings :
                C14_Rejected(program_recv(St, [eval |-> "raise", n |-> k]))

C14_Witness ==
    /\ backend = "headless" /\ zpc = "poll"
    /\ last_reply = "ERROR: invalid program data"
    /\ connected /\ writer /\ imu_data_buffer # << >>

\* C15: a rising edge that follows, by less than the 200 ms debounce
\* interval, an edge that submitted a trigger action submits none, in
\* HeadlessOptoGridClient and in OptoGridClient.
C15_DebouncedEdges ==
    [][((TGpioEdge \/ TOgGpioEdge) /\ edge_recent = "submitted") =>
            gpio_tasks' = gpio_tasks]_vars

\* C16: a connect that succeeds for a device without a calibration file, or
\* with a file that lacks the mag_x/mag_y/mag_z columns, leaves the identity
\* calibration in use, whatever was loaded before (HeadlessOptoGridClient and
\* OptoGridClient).
C16_IdentityWithoutCalibration ==
    \A cal \in {"missing", "nocols"} : \A o \in {"ok", "err"} :
        /\ (backend = "headless" /\ zpc \in {"connect_notify", "connect_readname"}) =>
                LET n == resume(St, o, TRUE, cal)
                IN  (n.zpc = "poll" /\ n.last_reply = ConnectedReply) =>
                        n.mag_calibration = "identity"
        /\ (backend = "og" /\ zpc = "og_notify") =>
                LET n == og_resume(St, o, TRUE, cal)
                IN  n.last_reply = OgConnectedReply => n.mag_calibration = "identity"

\* C17: a single magnetometer sample more than 2.0 gauss away from the last
\* accepted one makes that update use accel+gyro only, and the next sample,
\* when it is within 2.0 gauss of the last accepted one, is fused with the
\* magnetometer again.
C17_SpikeSkipped ==
    (accepted_mag # None /\ rejected_run = 0 /\ TooFar(last_mag', accepted_mag))
        => mag_fusion' = "6dof"

C17_FusionResumes ==
    (accepted_mag # None /\ rejected_run = 1 /\ TooFar(last_mag, accepted_mag)
        /\ ~TooFar(last_mag', accepted_mag))
        => mag_fusion' = "9dof"

C17_SingleSpikeRejected ==
    [][MagImuNotification => (C17_SpikeSkipped /\ C17_FusionResumes)]_vars

\* C18: an IMU notification whose payload is not exactly 22 bytes long is
\* skipped; imu_counter, the row buffer and the session file, and the
\* orientation state are as before it.  (A record is published exactly when
\* its orientation is computed, so an unchanged orientation state stands for
\* an unchanged broadcast stream.)
C18_Skipped(n) ==
    /\ n.imu_counter = imu_counter
    /\ n.imu_data_buffer = imu_data_buffer
    /\ n.files = files
    /\ n.last_mag = last_mag
    /\ n.mag_fusion = mag_fusion
    /\ n.current_battery_voltage = current_battery_voltage

C18_WrongLengthSkipped ==
    (connected /\ dev_sample < MaxRecords) =>
        \A len \in PayloadLens \ {ImuLen} :
            LET s == [St EXCEPT !.dev_sample = @ + 1]
                data == ImuPayload(dev_sample + 1, QuietMag, len)
            IN  /\ backend = "headless" => C18_Skipped(handle_imu_data_notification(s, data))
                /\ backend = "og" => C18_Skipped(og_handle_imu_data_notification(s, data))

\* C19: decode_value never raises, and for a known type it returns the
\* '<decode error>' sentinel when the bytes are malformed for the type: no
\* bytes, fewer bytes than a uint16 / uint32 / uint64 has, bytes that are not
\* UTF-8 for a string, an IMU payload shorter than 22 bytes.
C19_Malformed(type_str, data) ==
    /\ type_str \in Known
    /\ \/ data = << >>
       \/ type_str \in {"uint16", "uint32", "uint64"} /\ Len(data) < Width(type_str)
       \/ type_str = "string" /\ ~IsUtf8(data)
       \/ type_str = ImuType /\ Len(data) < ImuLen

C19_SentinelOnMalformed ==
    (codec_call.fn = "decode_value" /\ codec_ret # NoRet) =>
        /\ ~codec_ret.raised
        /\ C19_Malformed(codec_call.type_str, codec_call.arg) =>
               codec_ret.kind = DecodeError.kind

\* C20: encode_value fails with an error naming the value and the target
\* type when the text cannot be parsed as that type (a uint field: text that
\* is not a number or is out of range; a bool field: text that is not a
\* boolean word), and returns no bytes for such a text.
C20_BoolWords == TrueWords \cup { << 102, 97, 108, 115, 101 >>, << 48 >>, << 110, 111 >> }

C20_Unparsable(type_str, value_str) ==
    \/ /\ type_str \in {"uint8", "uint16", "uint32", "uint64"}
       /\ ~(IntParses(value_str) /\ Fits(value_str, Width(type_str)))
    \/ /\ type_str = "bool"
       /\ lower(strip(value_str)) \notin C20_BoolWords

C20_ErrorOnUnparsable ==
    (codec_call.fn = "encode_value" /\ codec_ret # NoRet
        /\ C20_Unparsable(codec_call.type_str, codec_call.arg)) =>
        codec_ret = ValueError(codec_call.arg, codec_call.type_str)

\* C21: for each of the types string, bool, uint8, uint16, uint32 and uint64,
\* decode_value(uuid, encode_value(uuid, v)) is v; among the values are 0 and
\* the largest number of each uint type, 'True' and 'False', and texts that
\* end with NUL characters.
C21_RoundTrip ==
    (codec_call.fn = "decode_value(encode_value)" /\ codec_ret # NoRet) =>
        (~codec_ret.raised /\ codec_ret.val = codec_call.arg)

\* the length of the shorter arc between two angles on a circle of turn units
ArcBetween(x, y, turn) == Min((x - y) % turn, (y - x) % turn)

\* C22: for previous and raw yaw in [0, 360) and alpha in [0, 1], delta is in
\* [-180, 180) and is the shortest signed difference from the previous to the
\* raw yaw; the smoothed yaw is in [0, 360) and lies on that shortest arc, at
\* alpha of its length from the previous yaw; from 359 to 2 delta is +3.
C22_ShortestArc ==
    (codec_call.fn = "smooth_yaw" /\ codec_ret # NoRet) =>
        LET last_yaw == codec_call.arg[1]
            yaw == codec_call.arg[2]
            a == codec_call.arg[3]
            delta == codec_ret.val[1]
            smooth == codec_ret.val[2]
        IN  /\ delta \in -180..179
            /\ (last_yaw + delta) % Turn = yaw
            /\ Abs(delta) = ArcBetween(last_yaw, yaw, Turn)
            /\ smooth \in 0..(Turn * AlphaDen - 1)
            /\ ArcBetween(last_yaw * AlphaDen, smooth, Turn * AlphaDen) = a * Abs(delta)
            /\ ArcBetween(smooth, yaw * AlphaDen, Turn * AlphaDen)
                   = (AlphaDen - a) * Abs(delta)
            /\ (last_yaw = 359 /\ yaw = 2) => delta = 3

C22_Witness ==
    /\ codec_call.fn = "smooth_yaw"
    /\ codec_call.arg = << 359, 2, AlphaDen >>
    /\ codec_ret.val = << 3, 2 * AlphaDen >>

\* C23: the client library's enable_imu() / disable_imu() return True exactly
\* when the reply of HeadlessOptoGridClient.enable_imu / disable_imu is its
\* success literal.  Violated: the library looks for the literal without
\* the comma, so it returns False for the server's success reply.
C23_LibraryReportsSuccess ==
    (backend = "headless" /\ zmq_state = "recv") =>
        /\ lib_enable_imu(last_reply) <=> (last_reply = EnabledReply)
        /\ lib_disable_imu(last_reply) <=> (last_reply = DisabledReply)

\* C24: when a connect, trigger, enable-IMU, disable-IMU, sync, program or
\* read-battery request succeeds, the reply sent by the dispatcher
\* (HeadlessOptoGridClient.handle_command and OptoGridClient.handle_command)
\* is exactly the documented literal.  Violated by OptoGridClient, whose
\* success replies are other texts.
C24_Documented(request) ==
    CASE request = "connect" -> DeviceName \o " Connected"
      [] request = "trigger" -> "Opto Triggered"
      [] request = "enable" -> "IMU enabled, and logging started"
      [] request = "disable" -> "IMU disabled, and logging stopped"
      [] request = "sync" -> "Sync Written"
      [] request = "program" -> "Opto Programmed"
      [] request = "battery" ->
            DeviceName \o " Battery Voltage = " \o ToString(BatteryMv) \o " mV"

\* the request whose last device operation is awaited at stage pc
C24_RequestAt(pc) ==
    CASE pc \in {"connect_notify", "connect_readname", "og_notify"} -> "connect"
      [] pc \in {"trigger_write", "og_trigger_write"} -> "trigger"
      [] pc \in {"enable_write", "enable_readid", "og_enable_write"} -> "enable"
      [] pc \in {"disable_write", "og_disable_write"} -> "disable"
      [] pc \in {"prog_write", "og_prog_write"} -> "program"
      [] pc \in {"bat_read_volt", "og_bat_read"} -> "battery"
      [] OTHER -> "other"

\* n: the object after the last device operation of a request succeeded
C24_Replied(n) ==
    (n.zpc = "poll" /\ C24_RequestAt(zpc) # "other") =>
        n.last_reply = C24_Documented(C24_RequestAt(zpc))

\* n: the object after a sync request that marked a record
C24_Synced(n) ==
    (n.imu_data_buffer # imu_data_buffer) => n.last_reply = C24_Documented("sync")

C24_HeadlessReplies ==
    backend = "headless" =>
        /\ zpc \notin {"poll", "prog_recv"} => C24_Replied(resume(St, "ok", TRUE, "missing"))
        /\ zpc = "poll" =>
              \A m \in Msgs({"optogrid.sync"}) : C24_Synced(run_recv(St, m))

C24_OgReplies ==
    backend = "og" =>
        /\ zpc # "poll" => C24_Replied(og_resume(St, "ok", TRUE, "missing"))
        /\ zpc = "poll" => \A m \in Msgs({"sync"}) : C24_Synced(og_run_recv(St, m))

C24_DocumentedReplies == C24_HeadlessReplies /\ C24_OgReplies

C24_HeadlessCase ==
    /\ backend = "headless" /\ zmq_state = "recv"
    /\ last_reply = DeviceName \o " Battery Voltage = " \o ToString(BatteryMv) \o " mV"

\* C25: HeadlessOptoGridClient.stop_IMU_logging is idempotent: called when no
\* session is active it changes nothing (row buffer, writer, logging flags,
\* files), one call leaves no session active, and a second call in a row
\* leaves the state the first one left.
C25_StopIdempotent ==
    /\ ~imu_logging_active => stop_IMU_logging(St) = St
    /\ stop_IMU_logging(stop_IMU_logging(St)) = stop_IMU_logging(St)
    /\ ~stop_IMU_logging(St).imu_logging_active /\ ~stop_IMU_logging(St).writer
    /\ (codec_call.fn = "stop_IMU_logging" /\ codec_call.arg = << FALSE >>) =>
            codec_ret.val = << TRUE >>

\* disable_imu has called stop_IMU_logging() with no session active, after a
\* session that was stopped before
C25_Witness ==
    /\ codec_call.fn = "stop_IMU_logging" /\ codec_call.arg = << FALSE >>
    /\ last_reply = DisabledReply /\ files # << >> /\ ~imu_logging_active

\* the adjacent pairs (i, i + 1) of a column, positions counted from 1
C26_Pairs(samples) == {i \in 1..Len(samples) : i + 1 <= Len(samples)}

RECURSIVE C26_Sum(_, _)
C26_Sum(f, S) ==
    IF S = {} THEN 0 ELSE LET x == CHOOSE y \in S : TRUE IN f[x] + C26_Sum(f, S \ {x})

\* C26: the sample-continuity check reports one gap for every adjacent pair
\* whose difference is not 1 and counts (difference - 1) missing samples for
\* each pair whose difference is greater than 1; for [1,2,3,6,7] it reports
\* exactly one gap, between samples 3 and 6, with 2 missing samples.
C26_GapsCounted ==
    (codec_call.fn = "sample_continuity" /\ codec_ret # NoRet) =>
        LET samples == codec_call.arg
            step == [i \in C26_Pairs(samples) |-> samples[i + 1] - samples[i]]
            gaps == {i \in C26_Pairs(samples) : step[i] # 1}
            lost == [i \in C26_Pairs(samples) |-> IF step[i] > 1 THEN step[i] - 1 ELSE 0]
        IN  /\ codec_ret.val[1] = {i - 1 : i \in gaps}
            /\ codec_ret.val[2] = Cardinality(gaps)
            /\ codec_ret.val[3] = C26_Sum(lost, C26_Pairs(samples))
            /\ samples = << 1, 2, 3, 6, 7 >> => codec_ret.val = << {2}, 1, 2 >>

C26_Witness ==
    /\ codec_call.fn = "sample_continuity" /\ codec_call.arg = << 1, 2, 3, 6, 7 >>
    /\ codec_ret.val = << {2}, 1, 2 >>

\* C27: in HeadlessOptoGridClient at most one GATT operation is outstanding at
\* any time: a trigger task of the GPIO thread does not await its write while
\* a ZMQ command awaits a device operation, nor the other way round.
\* Violated: both run as tasks of one loop with nothing to serialise them.
C27_OneOperationOutstanding ==
    backend = "headless" => gatt_outstanding(St) <= 1

\* C28: when a device operation started for an external request hangs, the
\* dispatcher (HeadlessOptoGridClient.run, the Qt ZMQListener) still sends a
\* reply after a bounded wait and is back at receiving the next request.
\* Violated: run() awaits the handler without a timeout, and ZMQListener
\* blocks in reply_queue.get(), into which the expired worker puts nothing.
C28_ReplyAfterHang ==
    (op_wait = "hung") ~> (zmq_state = "recv")

\* C29: in OptoGridClient every device-touching coroutine (of a ZMQ command,
\* of the GPIO callback, of the GUI) runs on the one loop self.loop, in the
\* GUI mode and in the headless mode of new_main.  Violated in headless mode:
\* the coroutines of ZMQ commands run on the loop of asyncio.run.
C29_OneLoop ==
    backend \in OgBackends => device_coro_loops(St) \subseteq {"self.loop"}

\* C30: in the Qt client the session row buffer and the cached battery
\* reading are changed only by the handler of IMU notifications, which runs
\* on the BLE event loop; no slot of the GUI thread (sync request, battery
\* voltage) changes them.  Violated: handle_sync_request writes the sync
\* value into the last buffered row, and the battery slot sets the reading.
C30_OnlyNotificationHandler ==
    [][(backend = "qt" /\ (imu_data_buffer' # imu_data_buffer
                           \/ current_battery_voltage' # current_battery_voltage))
          => QImuNotification(MaxRecords)]_vars

\* C31: after every successful connect the frequency of the orientation
\* filter equals the IMU sample rate of the connected device, also when the
\* connection before used another rate or the rate read fails or gives 0.
\* Violated: the filter is rebuilt only when the read succeeds with a rate
\* above 0; otherwise it keeps the frequency it had.
C31_FilterMatchesDevice ==
    (zpc = "poll" /\ connected /\ last_reply \in {ConnectedReply, OgConnectedReply}) =>
        filter_frequency = device_rate

\* C32: for one record the accelerometer and gyroscope vectors of the 6-DOF
\* fallback are the axis-remapped vectors the 9-DOF branch passes; the two
\* calls differ only in the magnetometer argument.
C32_SameVectors ==
    (codec_call.fn = "process_imu_orientation" /\ codec_ret # NoRet) =>
        LET dof6 == codec_ret.val[1]
            dof9 == codec_ret.val[2]
        IN  /\ dof6.acc = dof9.acc
            /\ dof6.gyr = dof9.gyr
            /\ ~dof6.mag /\ dof9.mag

\* the same for OptoGridClient alone, whose fallback passes acc_world
C32_OgSameVectors ==
    (backend = "og") => C32_SameVectors

\* C33: the success reply to a trigger or program request is sent only if
\* every device write of that request completed without error.
C33_SuccessReplies == {"Opto Triggered", "Opto Programmed",
                       "Trigger sent successfully", "Device programmed successfully"}

C33_SuccessMeansWritten ==
    (zpc = "poll" /\ last_reply \in C33_SuccessReplies) => ~write_failed

\* the same for HeadlessOptoGridClient alone
C33_HeadlessSuccessMeansWritten ==
    (backend = "headless") => C33_SuccessMeansWritten

\* C34: connect_device disconnects an existing connection, whose session is
\* stopped and flushed by the disconnect callback, before it scans or
\* connects; a connect request that fails leaves no connection and no
\* active session.
C34_DisconnectedFirst ==
    (backend = "headless" /\ zpc \in {"connect_scan", "connect_conn"}) =>
        ~connected

C34_FailedConnectLeavesNothing ==
    /\ C34_DisconnectedFirst
    /\ (backend = "headless" /\ zpc = "poll"
            /\ last_reply \in {"Connection failed", "Device not found"}) =>
           ~connected /\ ~imu_logging_active

\* C35: in HeadlessOptoGridClient, whenever rows are being buffered
\* (imu_enable_state) a session writer is open (imu_logging_active and
\* parquet_writer set), in every reachable state; hence flush_imu_buffer
\* never clears rows without writing them.
C35_BufferingHasWriter ==
    (backend = "headless" /\ imu_enable_state) => (imu_logging_active /\ writer)

\* rows leave the buffer only into the session file
C35_FlushWrites ==
    [][(backend = "headless" /\ imu_data_buffer # << >> /\ imu_data_buffer' = << >>)
          => files' # files]_vars

\* C36: in HeadlessOptoGridClient a successful battery read is recorded in at
\* most one session row, the first row buffered after the read, with the
\* voltage read; every other row has a null bat_v.
RECURSIVE C36_Files(_)

C36_Files(fs) == IF fs = << >> THEN << >> ELSE Flatten(Head(fs)) \o C36_Files(Tail(fs))

C36_Rows(fs, buffer) == C36_Files(fs) \o buffer

C36_WithBattery(rows) == Cardinality({i \in 1..Len(rows) : rows[i].bat_v # None})

C37_Marked(buffer) ==
    IF buffer = << >> THEN << >>
    ELSE [buffer EXCEPT ![Len(buffer)] = [@ EXCEPT !.sync = 65536]]

C37_TriggerMarksLastRow ==
    [][LET zmq_trigger == zpc = "trigger_write" /\ last_reply' = "Opto Triggered"
           gpio_trigger == gpio_tasks' = gpio_tasks - 1 /\ codec_call'.type_str = "ok"
       IN  /\ (zmq_trigger \/ gpio_trigger) =>
                 /\ imu_data_buffer' = C37_Marked(imu_data_buffer)
                 /\ files' = files
           /\ (zpc = "trigger_write" /\ zpc' = "poll") =>
                 last_reply' \in {"Opto Triggered", "Trigger failed"}]_vars

C37_Witness ==
    /\ codec_call.fn = "do_send_trigger" /\ codec_call.type_str = "ok"
    /\ last_reply = "Opto Triggered"
    /\ Len(imu_data_buffer) = 2
    /\ imu_data_buffer[1].sync = 0 /\ imu_data_buffer[2].sync = 65536

\* C38: while the headless dispatcher waits for the program payload after
\* 'Ready for program data', no IMU notification is processed and no trigger
\* scheduled by the GPIO callback runs; they wait until the payload has been
\* received, and nothing but the payload ends the wait.
C38_LoopBlockedInWait ==
    [][zpc = "prog_recv" =>
          /\ imu_counter' = imu_counter /\ dev_sample' = dev_sample
          /\ imu_data_buffer' = imu_data_buffer /\ files' = files
          /\ connected' = connected
          /\ gpio_tasks' >= gpio_tasks
          /\ zpc' # "prog_recv" =>
                (last_reply = "Ready for program data"
                    /\ last_reply' # "Ready for program data")]_vars

C38_Witness ==
    /\ zpc = "prog_recv" /\ last_reply = "Ready for program data"
    /\ connected /\ imu_enable_state
    /\ gpio_tasks > 0 /\ dev_sample < MaxRecords

\* C39: in HeadlessOptoGridClient a trigger, enableIMU / startIMULog,
\* disableIMU / stopIMULog, readbattery, toggle-LED or program request
\* received while no device is connected is answered 'Not connected to
\* device', starts no device operation and changes none of the session state,
\* the row buffer, the logging flags and the battery cache.
C39_Frame ==
    << imu_data_buffer, files, writer, imu_logging_active, imu_enable_state,
       current_battery_voltage >>

C39_NoOperation ==
    /\ C39_Frame' = C39_Frame
    /\ connected' = connected /\ gpio_tasks' = gpio_tasks /\ gpio_writes' = gpio_writes

\* the message has the argument its handler parses
C39_WellFormed(m) ==
    (m.toks \cap {"optogrid.startIMULog", "optogrid.toggleStatusLED",
                  "optogrid.toggleShamLED"} # {}) => m.arg = "ok"

\* as stated: every such request with a well-formed argument, the program
\* request included
C39_NotConnectedReply ==
    [][(backend = "headless" /\ zpc = "poll" /\ ~connected
            /\ codec_call'.fn = "handle_command"
            /\ codec_call'.arg.toks \cap (GuardedTokens \cup {"optogrid.program"}) # {}
            /\ C39_WellFormed(codec_call'.arg)) =>
          (last_reply' = "Not connected to device" /\ zpc' = "poll" /\ C39_NoOperation)]_vars

\* amended: the program request is answered 'Ready for program data' and its
\* payload 'Not connected to device' (an error when it cannot be evaluated);
\* a request whose argument cannot be parsed is answered with an error
C39_NotConnectedFrame ==
    [][/\ (backend = "headless" /\ zpc = "poll" /\ ~connected
              /\ codec_call'.fn = "handle_command") =>
             LET m == codec_call'.arg
             IN  /\ (m.toks \cap GuardedTokens # {}) =>
                       /\ zpc' = "poll" /\ C39_NoOperation
                       /\ C39_WellFormed(m) => last_reply' = "Not connected to device"
                       /\ ~C39_WellFormed(m) =>
                             last_reply' \in {"ERROR: Invalid startIMULog parameters",
                                              "ERROR: Invalid value for toggleStatusLED",
                                              "ERROR: Invalid value for toggleShamLED"}
                 /\ (m.toks = {"optogrid.program"}) =>
                       /\ zpc' = "prog_recv" /\ C39_NoOperation
                       /\ last_reply' = "Ready for program data"
       /\ (backend = "headless" /\ zpc = "prog_recv" /\ ~connected
              /\ zpc' # "prog_recv") =>
             /\ zpc' = "poll" /\ C39_NoOperation
             /\ last_reply' \in {"Not connected to device", "ERROR: invalid program data"}]_vars

C39_Witness ==
    /\ backend = "headless" /\ zpc = "poll" /\ ~connected
    /\ codec_call.fn = "handle_command" /\ codec_call.arg.toks = {"optogrid.trigger"}
    /\ last_reply = "Not connected to device"
    /\ current_battery_voltage = BatteryMv

\* C40: OptoGrid.connect() sends the connect request at most three times and
\* returns True exactly when one of the attempts receives a reply containing
\* '<device_name> Connected'; an attempt whose reply timed out does not keep a
\* later attempt from being sent on the same REQ socket.
C40_ThreeSends ==
    /\ req_client.sent + req_client.raised <= 3
    /\ req_client.pc = "returned" => (req_client.ret <=> req_client.got)

C40_RetryAfterTimeout ==
    /\ C40_ThreeSends
    /\ req_client.timeouts > 0 => req_client.raised = 0

====
